---- MODULE Spec2Model ----
(***************************************************************************)
(* A model of simleg, a simulator for a subset of LEGv8 assembly: the CPU  *)
(* (cpu.go), the instruction model and opcode table (asm.go), the parser   *)
(* (parser.go) and the sparse memory.                                      *)
(*                                                                         *)
(* Strings of the program (mnemonics, register names, labels, token text)  *)
(* are sequences of one-character strings, so that the prefix and suffix   *)
(* tests of the code are computed as the code computes them.               *)
(* Machine words (uint64 in the code) are WordBits wide in the model; all  *)
(* word arithmetic wraps modulo 2^WordBits.                                *)
(***************************************************************************)
EXTENDS Integers, Sequences, FiniteSets, TLC

VARIABLES PC, Registers, Flags, Err, Memory, labels, prog,
          ret, panicked, pc, last,
          io, threads, lexer, parser

vars == <<PC, Registers, Flags, Err, Memory, labels, prog,
          ret, panicked, pc, last, io, threads, lexer, parser>>

\* the variables of the CPU and of its client, and the others: the calls made
\* on a Memory of its own (io), the threads that share a Memory (threads), a
\* lexer (lexer) and a parser (parser) on an input
cpuVars == <<PC, Registers, Flags, Err, Memory, labels, prog, ret, panicked, pc, last>>
others == <<io, threads, lexer, parser>>

----------------------------------------------------------------------------
(* Bounds of the model *)

\* width of a machine word in the model (uint64 in the code)
WordBits == 6
\* number of outcomes of the random source that Load and block allocation draw from
NumSeeds == 25

----------------------------------------------------------------------------
(* Words and bit operations *)

RECURSIVE Pow2(_)
Pow2(n) == IF n = 0 THEN 1 ELSE 2 * Pow2(n - 1)

Mod == Pow2(WordBits)
Word == 0 .. (Mod - 1)
HighBit == Pow2(WordBits - 1)

RECURSIVE BitAnd(_, _)
BitAnd(x, y) ==
    IF x = 0 \/ y = 0 THEN 0
    ELSE (x % 2) * (y % 2) + 2 * BitAnd(x \div 2, y \div 2)

RECURSIVE BitOr(_, _)
BitOr(x, y) ==
    IF x = 0 THEN y
    ELSE IF y = 0 THEN x
    ELSE (IF x % 2 = 1 \/ y % 2 = 1 THEN 1 ELSE 0) + 2 * BitOr(x \div 2, y \div 2)

RECURSIVE BitXor(_, _)
BitXor(x, y) ==
    IF x = 0 THEN y
    ELSE IF y = 0 THEN x
    ELSE ((x + y) % 2) + 2 * BitXor(x \div 2, y \div 2)

\* x << y and x >> y on an unsigned word: a shift count of the width or more gives 0
Shl(x, y) == IF y >= WordBits THEN 0 ELSE (x * Pow2(y)) % Mod
Shr(x, y) == IF y >= WordBits THEN 0 ELSE x \div Pow2(y)

\* math/bits.Add64(x, y, 0) and Sub64(x, y, 0): the result and the carry / borrow out
Add64(x, y) == [sum |-> (x + y) % Mod, carryOut |-> IF x + y >= Mod THEN 1 ELSE 0]
Sub64(x, y) == [diff |-> (x - y + Mod) % Mod, borrowOut |-> IF x < y THEN 1 ELSE 0]

----------------------------------------------------------------------------
(* Strings as sequences of characters *)

HasPrefix(s, p) == Len(s) >= Len(p) /\ SubSeq(s, 1, Len(p)) = p
HasSuffix(s, p) == Len(s) >= Len(p) /\ SubSeq(s, Len(s) - Len(p) + 1, Len(s)) = p

----------------------------------------------------------------------------
(* Registers (asm.go) *)

X0 == 0
X1 == 1
X2 == 2
X3 == 3
X16 == 16
X17 == 17
X28 == 28
X29 == 29
X30 == 30
XZR == 31
S0 == 32
S31 == 63
D0 == 64
D31 == 95

IP0 == X16
IP1 == X17
SP == X28
FP == X29
LR == X30

\* the indices of CPU.Registers, a [32]uint64
RegIndex == 0 .. 31

----------------------------------------------------------------------------
(* Condition flags (cpu.go) *)

flagN == 1
flagZ == 2
flagV == 4
flagC == 8

\* every value of the four defined flag bits
AllFlags == 0 .. (flagN + flagZ + flagV + flagC)

----------------------------------------------------------------------------
(* The instruction model (asm.go) *)

\* the zero values of Addr and Instruction
ZeroAddr == [Reg |-> 0, Offset |-> 0, Label |-> <<>>]
ZeroInstruction ==
    [Op |-> <<>>, To |-> ZeroAddr, From |-> ZeroAddr, Reg |-> 0, Imm |-> 0,
     Label |-> <<>>]

----------------------------------------------------------------------------
(* The random source (math/rand, seeded from the clock): an outcome is     *)
(* chosen by the caller, and the values drawn are a function of it.        *)

Seeds == 0 .. (NumSeeds - 1)

\* the values a random word takes in the model: both ends of the unsigned
\* and of the signed range, and 1
SeedVals == <<0, 1, HighBit - 1, HighBit, Mod - 1>>

\* the i-th random.Uint64() of Load under outcome seed
RandomUint64(seed, i) ==
    LET k  == Len(SeedVals)
        d0 == seed % k
        d1 == (seed \div k) % k
    IN  SeedVals[((d0 * (1 + (i % 4)) + d1 * (1 + ((i \div 4) % 4)) + i) % k) + 1]

\* the i-th byte random.Read gives a new block under outcome seed
RandomByte(seed, i) == ((seed * 89) + (i * 7) + 1) % 256

----------------------------------------------------------------------------
(* Memory: blocks of BlockSize bytes allocated on first touch *)

BlockSize == 1024

\* getOrMakeBlock without the lookup of the map: every call makes a new block
getOrMakeBlockFresh(m, addr, seed) ==
    LET k == addr \div BlockSize
    IN  [m |-> [m EXCEPT !.blocks =
                    (k :> [off |-> k * BlockSize,
                           data |-> [i \in 0 .. (BlockSize - 1) |->
                                        RandomByte(seed, i)]]) @@ m.blocks],
         k |-> k]

\* Memory.getOrMakeBlock: the memory after the call and the block's key
getOrMakeBlock(m, addr, seed) ==
    LET k == addr \div BlockSize
    IN  IF k \in DOMAIN m.blocks
        THEN [m |-> m, k |-> k]
        ELSE [m |-> [m EXCEPT !.blocks =
                        (k :> [off |-> k * BlockSize,
                               data |-> [i \in 0 .. (BlockSize - 1) |->
                                            RandomByte(seed, i)]]) @@ m.blocks],
              k |-> k]

Min(a, b) == IF a < b THEN a ELSE b

\* the loop of Memory.Read, from n bytes done: b is the caller's buffer
RECURSIVE ReadFrom(_, _, _, _, _)
ReadFrom(m, b, addr, n, seed) ==
    LET total == Len(b)
    IN  IF ~(n < total) THEN [m |-> m, b |-> b, n |-> n]
        ELSE LET g    == getOrMakeBlock(m, addr + n, seed)
                 bk   == g.m.blocks[g.k]
                 off  == (addr + n) % BlockSize
                 end0 == off + total - n
                 end  == IF end0 > BlockSize THEN BlockSize ELSE end0
                 cnt  == Min(total - n, end - off)
                 b2   == [i \in 1 .. total |->
                             IF i > n /\ i <= n + cnt
                             THEN bk.data[off + (i - n - 1)]
                             ELSE b[i]]
             IN  ReadFrom(g.m, b2, addr, n + cnt, seed)

Read(m, b, addr, seed) == ReadFrom(m, b, addr, 0, seed)

\* the loop of Memory.Write, from n bytes done
RECURSIVE WriteFrom(_, _, _, _, _)
WriteFrom(m, b, addr, n, seed) ==
    LET total == Len(b)
    IN  IF ~(n < total) THEN [m |-> m, n |-> n]
        ELSE LET g    == getOrMakeBlock(m, addr + n, seed)
                 bk   == g.m.blocks[g.k]
                 off  == (addr + n) % BlockSize
                 end0 == off + total - n
                 end  == IF end0 > BlockSize THEN BlockSize ELSE end0
                 cnt  == Min(end - off, total - n)
                 d2   == [i \in off .. (off + cnt - 1) |-> b[n + (i - off) + 1]]
                             @@ bk.data
                 m2   == [g.m EXCEPT !.blocks[g.k].data = d2]
             IN  WriteFrom(m2, b, addr, n + cnt, seed)

Write(m, b, addr, seed) == WriteFrom(m, b, addr, 0, seed)

\* binary.LittleEndian.PutUint64 and Uint64 on a machine word
RECURSIVE PutUint(_, _)
PutUint(v, n) == IF n = 0 THEN <<>> ELSE <<v % 256>> \o PutUint(v \div 256, n - 1)

RECURSIVE Uint(_)
Uint(d) == IF d = <<>> THEN 0 ELSE (Head(d) + 256 * Uint(Tail(d))) % Mod

----------------------------------------------------------------------------
(* The CPU (cpu.go). A method of *CPU is an operator from the CPU's fields *)
(* (a record cpu) to the fields after the call, its result and whether the *)
(* call panicked.                                                          *)

NoPanic == ""
IndexPanic == "index out of range"
CondPanic == "unknown comparison"

\* CPU.Load: a fresh memory, 32 random registers, the label map, the program
Load(cpu, p, seed) ==
    [cpu EXCEPT
        !.Memory = [nil |-> FALSE, blocks |-> <<>>],
        !.Registers = [i \in RegIndex |-> RandomUint64(seed, i)],
        !.labels = [l \in {p[i].Label : i \in {j \in 1 .. Len(p) : p[j].Label # <<>>}} |->
                       CHOOSE i \in 0 .. (Len(p) - 1) :
                           /\ p[i + 1].Label = l
                           /\ \A j \in 0 .. (Len(p) - 1) : p[j + 1].Label = l => j <= i],
        !.prog = p]

\* CPU.valuesFor: the destination and the two operand values
valuesFor(cpu, as) ==
    IF HasSuffix(as.Op, <<"I">>)
    THEN IF as.From.Reg \in RegIndex
         THEN [dst |-> as.To.Reg, a |-> cpu.Registers[as.From.Reg], b |-> as.Imm,
               panic |-> NoPanic]
         ELSE [dst |-> as.To.Reg, a |-> 0, b |-> 0, panic |-> IndexPanic]
    ELSE IF as.From.Reg \in RegIndex /\ as.Reg \in RegIndex
         THEN [dst |-> as.To.Reg, a |-> cpu.Registers[as.From.Reg],
               b |-> cpu.Registers[as.Reg], panic |-> NoPanic]
         ELSE [dst |-> as.To.Reg, a |-> 0, b |-> 0, panic |-> IndexPanic]

\* setFlags without its test of the mnemonic's suffix: every arithmetic and
\* logical instruction updates the flags
setFlagsAlways(cpu, as, carry) ==
    LET v == cpu.Registers[as.To.Reg]
    IN  IF v = 0
        THEN [cpu EXCEPT !.Flags = BitOr(BitOr(BitOr(cpu.Flags, flagZ), flagN), flagC)]
        ELSE IF carry = 1 THEN [cpu EXCEPT !.Flags = BitOr(cpu.Flags, flagC)]
        ELSE [cpu EXCEPT !.Flags = 0]

\* CPU.setFlags: the switch falls through from the zero case to the end
setFlags(cpu, as, carry) ==
    IF ~HasSuffix(as.Op, <<"S">>) THEN cpu
    ELSE LET v == cpu.Registers[as.To.Reg]
         IN  IF v = 0
             THEN [cpu EXCEPT !.Flags =
                      BitOr(BitOr(BitOr(cpu.Flags, flagZ), flagN), flagC)]
             ELSE IF v < 0
             THEN [cpu EXCEPT !.Flags = BitOr(BitOr(cpu.Flags, flagN), flagC)]
             ELSE IF carry = 1
             THEN [cpu EXCEPT !.Flags = BitOr(cpu.Flags, flagC)]
             ELSE [cpu EXCEPT !.Flags = 0]

\* cpu.Registers[dst] = v, then setFlags when the case calls it
store(cpu, as, dst, v, carry, flagged) ==
    IF dst \notin RegIndex
    THEN [cpu |-> cpu, ok |-> FALSE, panic |-> IndexPanic]
    ELSE LET c1 == [cpu EXCEPT !.Registers[dst] = v]
         IN  [cpu |-> IF flagged THEN setFlags(c1, as, carry) ELSE c1,
              ok |-> TRUE, panic |-> NoPanic]

\* CPU.arith
arith(cpu, as) ==
    LET vf == valuesFor(cpu, as)
        x  == vf.a
        y  == vf.b
    IN  IF vf.panic # NoPanic THEN [cpu |-> cpu, ok |-> FALSE, panic |-> vf.panic]
        ELSE IF HasPrefix(as.Op, <<"A", "D", "D">>)
        THEN store(cpu, as, vf.dst, Add64(x, y).sum, Add64(x, y).carryOut, TRUE)
        ELSE IF HasPrefix(as.Op, <<"S", "U", "B">>)
        THEN store(cpu, as, vf.dst, Sub64(x, y).diff, Sub64(x, y).borrowOut, TRUE)
        ELSE IF HasPrefix(as.Op, <<"E", "O", "R">>)
        THEN store(cpu, as, vf.dst, BitXor(x, y), 0, TRUE)
        ELSE IF HasPrefix(as.Op, <<"O", "R", "R">>)
        THEN store(cpu, as, vf.dst, BitOr(x, y), 0, TRUE)
        ELSE IF HasPrefix(as.Op, <<"A", "N", "D">>)
        THEN store(cpu, as, vf.dst, BitAnd(x, y), 0, TRUE)
        ELSE IF as.Op = <<"L", "S", "L">>
        THEN store(cpu, as, vf.dst, Shl(x, y), 0, FALSE)
        ELSE IF as.Op = <<"L", "S", "R">>
        THEN store(cpu, as, vf.dst, Shr(x, y), 0, FALSE)
        ELSE IF as.Op = <<"M", "U", "L">>
        THEN store(cpu, as, vf.dst, (x * y) % Mod, 0, FALSE)
        ELSE [cpu |-> cpu, ok |-> FALSE, panic |-> NoPanic]

\* val in CPU.shouldBranch: the flag's bit, masked and not shifted
val(cpu, f) == BitAnd(cpu.Flags, f)

\* CPU.shouldBranch
shouldBranch(cpu, cond) ==
    IF cond = <<"E", "Q">> THEN [ok |-> val(cpu, flagZ) = 1, err |-> FALSE]
    ELSE IF cond = <<"N", "E">> THEN [ok |-> val(cpu, flagZ) = 0, err |-> FALSE]
    ELSE IF cond = <<"L", "T">>
    THEN [ok |-> val(cpu, flagN) # val(cpu, flagV), err |-> FALSE]
    ELSE IF cond = <<"L", "E">>
    THEN [ok |-> ~(val(cpu, flagZ) = 0 /\ val(cpu, flagN) = val(cpu, flagV)),
          err |-> FALSE]
    ELSE IF cond = <<"G", "T">>
    THEN [ok |-> val(cpu, flagZ) = 0 /\ val(cpu, flagN) = val(cpu, flagV),
          err |-> FALSE]
    ELSE IF cond = <<"G", "E">>
    THEN [ok |-> val(cpu, flagN) = val(cpu, flagV), err |-> FALSE]
    ELSE IF cond = <<"L", "O">> THEN [ok |-> val(cpu, flagC) = 0, err |-> FALSE]
    ELSE IF cond = <<"L", "S">>
    THEN [ok |-> ~(val(cpu, flagZ) = 0 /\ val(cpu, flagC) = 1), err |-> FALSE]
    ELSE IF cond = <<"H", "I">>
    THEN [ok |-> val(cpu, flagZ) = 0 /\ val(cpu, flagC) = 1, err |-> FALSE]
    ELSE IF cond = <<"H", "S">> THEN [ok |-> val(cpu, flagC) = 1, err |-> FALSE]
    ELSE [ok |-> FALSE, err |-> TRUE]

\* addr with a label that is not in the map read as the current PC
addrMissingStays(cpu, to) ==
    IF to.Label # <<>>
    THEN IF to.Label \in DOMAIN cpu.labels THEN cpu.labels[to.Label] ELSE cpu.PC
    ELSE (cpu.PC + to.Offset) % Mod

\* addr in CPU.branch: a label not in the map reads as 0
addr(cpu, to) ==
    IF to.Label # <<>>
    THEN IF to.Label \in DOMAIN cpu.labels THEN cpu.labels[to.Label] ELSE 0
    ELSE (cpu.PC + to.Offset) % Mod

\* CPU.branch: the case of B sets PC and leaves the switch, so it reports false
branch(cpu, as) ==
    IF as.Op = <<"B">>
    THEN [cpu |-> [cpu EXCEPT !.PC = addr(cpu, as.To)], ok |-> FALSE, panic |-> NoPanic]
    ELSE IF as.Op = <<"B", "R">>
    THEN IF as.To.Reg \in RegIndex
         THEN [cpu |-> [cpu EXCEPT !.PC = cpu.Registers[as.To.Reg]], ok |-> TRUE,
               panic |-> NoPanic]
         ELSE [cpu |-> cpu, ok |-> FALSE, panic |-> IndexPanic]
    ELSE IF as.Op = <<"B", "L">>
    THEN LET c1 == [cpu EXCEPT !.Registers[LR] = cpu.PC]
         IN  [cpu |-> [c1 EXCEPT !.PC = addr(c1, as.To)], ok |-> TRUE, panic |-> NoPanic]
    ELSE IF as.Op = <<"C", "B", "Z">>
    THEN IF as.To.Reg \notin RegIndex
         THEN [cpu |-> cpu, ok |-> FALSE, panic |-> IndexPanic]
         ELSE IF cpu.Registers[as.To.Reg] # 0
         THEN [cpu |-> [cpu EXCEPT !.PC = (cpu.PC + 1) % Mod], ok |-> TRUE,
               panic |-> NoPanic]
         ELSE [cpu |-> [cpu EXCEPT !.PC = addr(cpu, as.From)], ok |-> TRUE,
               panic |-> NoPanic]
    ELSE IF as.Op = <<"C", "B", "N", "Z">>
    THEN IF as.To.Reg \notin RegIndex
         THEN [cpu |-> cpu, ok |-> FALSE, panic |-> IndexPanic]
         ELSE IF cpu.Registers[as.To.Reg] = 0
         THEN [cpu |-> [cpu EXCEPT !.PC = (cpu.PC + 1) % Mod], ok |-> TRUE,
               panic |-> NoPanic]
         ELSE [cpu |-> [cpu EXCEPT !.PC = addr(cpu, as.From)], ok |-> TRUE,
               panic |-> NoPanic]
    ELSE IF HasPrefix(as.Op, <<"B", ".">>)
    THEN LET sb == shouldBranch(cpu, SubSeq(as.Op, 3, Len(as.Op)))
         IN  IF sb.err THEN [cpu |-> cpu, ok |-> FALSE, panic |-> CondPanic]
             ELSE IF ~sb.ok
             THEN [cpu |-> [cpu EXCEPT !.PC = (cpu.PC + 1) % Mod], ok |-> TRUE,
                   panic |-> NoPanic]
             ELSE [cpu |-> [cpu EXCEPT !.PC = addr(cpu, as.To)], ok |-> TRUE,
                   panic |-> NoPanic]
    ELSE [cpu |-> cpu, ok |-> FALSE, panic |-> NoPanic]

\* CPU.memory: STUR and LDUR move 8 bytes, little-endian
memory(cpu, as, seed) ==
    IF as.Op = <<"S", "T", "U", "R">>
    THEN IF as.To.Reg \notin RegIndex \/ as.From.Reg \notin RegIndex
         THEN [cpu |-> cpu, ok |-> FALSE, panic |-> IndexPanic]
         ELSE LET d == PutUint(cpu.Registers[as.To.Reg], 8)
                  w == Write(cpu.Memory, d,
                             (cpu.Registers[as.From.Reg] + as.From.Offset) % Mod, seed)
              IN  [cpu |-> [cpu EXCEPT !.Memory = w.m], ok |-> TRUE, panic |-> NoPanic]
    ELSE IF as.Op = <<"L", "D", "U", "R">>
    THEN IF as.To.Reg \notin RegIndex \/ as.From.Reg \notin RegIndex
         THEN [cpu |-> cpu, ok |-> FALSE, panic |-> IndexPanic]
         ELSE LET r == Read(cpu.Memory, PutUint(0, 8),
                            (cpu.Registers[as.From.Reg] + as.From.Offset) % Mod, seed)
              IN  [cpu |-> [cpu EXCEPT !.Memory = r.m,
                                       !.Registers[as.To.Reg] = Uint(r.b)],
                   ok |-> TRUE, panic |-> NoPanic]
    ELSE [cpu |-> cpu, ok |-> FALSE, panic |-> NoPanic]

\* Step with the bound of its result off by one: true also when PC is the
\* program's length
StepInclusive(cpu, seed) ==
    IF Len(cpu.prog) = 0 THEN [cpu |-> cpu, ret |-> FALSE, panic |-> NoPanic]
    ELSE IF cpu.PC >= Len(cpu.prog) THEN [cpu |-> cpu, ret |-> FALSE, panic |-> IndexPanic]
    ELSE LET as   == cpu.prog[cpu.PC + 1]
             a    == arith(cpu, as)
             b    == branch(a.cpu, as)
             m    == memory(b.cpu, as, seed)
             done(c) == [cpu |-> c, ret |-> c.PC <= Len(c.prog), panic |-> NoPanic]
             inc(c)  == [c EXCEPT !.PC = (c.PC + 1) % Mod]
         IN  IF a.panic # NoPanic THEN [cpu |-> cpu, ret |-> FALSE, panic |-> a.panic]
             ELSE IF a.ok THEN done(inc(a.cpu))
             ELSE IF b.panic # NoPanic THEN [cpu |-> cpu, ret |-> FALSE, panic |-> b.panic]
             ELSE IF b.ok THEN done(b.cpu)
             ELSE IF m.panic # NoPanic THEN [cpu |-> cpu, ret |-> FALSE, panic |-> m.panic]
             ELSE IF m.ok THEN done(inc(m.cpu))
             ELSE done(m.cpu)

\* CPU.Step: the instruction at PC goes to arith, then branch, then memory
Step(cpu, seed) ==
    IF Len(cpu.prog) = 0 THEN [cpu |-> cpu, ret |-> FALSE, panic |-> NoPanic]
    ELSE IF cpu.PC >= Len(cpu.prog) THEN [cpu |-> cpu, ret |-> FALSE, panic |-> IndexPanic]
    ELSE LET as   == cpu.prog[cpu.PC + 1]
             a    == arith(cpu, as)
             b    == branch(a.cpu, as)
             m    == memory(b.cpu, as, seed)
             done(c) == [cpu |-> c, ret |-> c.PC < Len(c.prog), panic |-> NoPanic]
             inc(c)  == [c EXCEPT !.PC = (c.PC + 1) % Mod]
         IN  IF a.panic # NoPanic THEN [cpu |-> cpu, ret |-> FALSE, panic |-> a.panic]
             ELSE IF a.ok THEN done(inc(a.cpu))
             ELSE IF b.panic # NoPanic THEN [cpu |-> cpu, ret |-> FALSE, panic |-> b.panic]
             ELSE IF b.ok THEN done(b.cpu)
             ELSE IF m.panic # NoPanic THEN [cpu |-> cpu, ret |-> FALSE, panic |-> m.panic]
             ELSE IF m.ok THEN done(inc(m.cpu))
             ELSE done(m.cpu)

----------------------------------------------------------------------------
(* The opcode table (asm.go) *)

OpcodeTable ==
    <<
       <<<<"A", "D", "D">>, "rformat">>,
       <<<<"A", "D", "D", "I">>, "iformat">>,
       <<<<"A", "D", "D", "I", "S">>, "iformat">>,
       <<<<"A", "D", "D", "S">>, "rformat">>,
       <<<<"A", "N", "D">>, "rformat">>,
       <<<<"A", "N", "D", "I">>, "iformat">>,
       <<<<"A", "N", "D", "I", "S">>, "iformat">>,
       <<<<"A", "N", "D", "S">>, "rformat">>,
       <<<<"B">>, "bformat">>,
       <<<<"B", ".", "E", "Q">>, "bformat">>,
       <<<<"B", ".", "N", "E">>, "bformat">>,
       <<<<"B", ".", "L", "T">>, "bformat">>,
       <<<<"B", ".", "L", "E">>, "bformat">>,
       <<<<"B", ".", "G", "T">>, "bformat">>,
       <<<<"B", ".", "G", "E">>, "bformat">>,
       <<<<"B", ".", "L", "O">>, "bformat">>,
       <<<<"B", ".", "L", "S">>, "bformat">>,
       <<<<"B", ".", "H", "I">>, "bformat">>,
       <<<<"B", ".", "H", "S">>, "bformat">>,
       <<<<"B", ".", "M", "I">>, "bformat">>,
       <<<<"B", ".", "P", "L">>, "bformat">>,
       <<<<"B", ".", "V", "S">>, "bformat">>,
       <<<<"B", ".", "V", "C">>, "bformat">>,
       <<<<"B", "L">>, "bformat">>,
       <<<<"B", "R">>, "bformat">>,
       <<<<"C", "B", "N", "Z">>, "cbformat">>,
       <<<<"C", "B", "Z">>, "cbformat">>,
       <<<<"E", "O", "R">>, "rformat">>,
       <<<<"E", "O", "R", "I">>, "iformat">>,
       <<<<"L", "D", "U", "R">>, "dformat">>,
       <<<<"L", "D", "U", "R", "B">>, "dformat">>,
       <<<<"L", "D", "U", "R", "H">>, "dformat">>,
       <<<<"L", "D", "U", "R", "S">>, "dformat">>,
       <<<<"L", "D", "X", "R">>, "dformat">>,
       <<<<"L", "S", "L">>, "iformat">>,
       <<<<"L", "S", "R">>, "iformat">>,
       <<<<"M", "O", "V", "K">>, "imformat">>,
       <<<<"M", "O", "V", "Z">>, "imformat">>,
       <<<<"O", "R", "R">>, "rformat">>,
       <<<<"O", "R", "R", "I">>, "iformat">>,
       <<<<"S", "T", "U", "R">>, "dformat">>,
       <<<<"S", "T", "U", "R", "B">>, "dformat">>,
       <<<<"S", "T", "U", "R", "H">>, "dformat">>,
       <<<<"S", "T", "U", "R", "W">>, "dformat">>,
       <<<<"S", "T", "X", "R">>, "dformat">>,
       <<<<"S", "U", "B">>, "rformat">>,
       <<<<"S", "U", "B", "I">>, "iformat">>,
       <<<<"S", "U", "B", "I", "S">>, "iformat">>,
       <<<<"S", "U", "B", "S">>, "rformat">>,
       <<<<"F", "A", "D", "D", "S">>, "rformat">>,
       <<<<"F", "A", "D", "D", "D">>, "rformat">>,
       <<<<"F", "C", "M", "P", "S">>, "rformat">>,
       <<<<"F", "C", "M", "P", "D">>, "rformat">>,
       <<<<"F", "D", "I", "V", "S">>, "rformat">>,
       <<<<"F", "D", "I", "V", "D">>, "rformat">>,
       <<<<"F", "M", "U", "L", "S">>, "rformat">>,
       <<<<"F", "M", "U", "L", "D">>, "rformat">>,
       <<<<"F", "S", "U", "B", "D">>, "rformat">>,
       <<<<"L", "D", "U", "R", "D">>, "dformat">>,
       <<<<"M", "U", "L">>, "rformat">>,
       <<<<"S", "D", "I", "V">>, "rformat">>,
       <<<<"S", "M", "U", "L", "H">>, "rformat">>,
       <<<<"S", "T", "U", "R", "S">>, "dformat">>,
       <<<<"S", "T", "U", "R", "D">>, "dformat">>,
       <<<<"U", "D", "I", "V">>, "rformat">>,
       <<<<"U", "M", "U", "L", "H">>, "rformat">>
    >>

OpNames == {OpcodeTable[i][1] : i \in 1 .. Len(OpcodeTable)}

\* opcodes: the format of a mnemonic
opcodes ==
    [op \in OpNames |->
        LET i == CHOOSE j \in 1 .. Len(OpcodeTable) : OpcodeTable[j][1] = op
        IN  OpcodeTable[i][2]]

\* Instruction.registerPrefix: the cases of LDURS and LDURD are empty and
\* leave the switch
registerPrefix(as) ==
    IF HasPrefix(as.Op, <<"F">>)
    THEN IF HasSuffix(as.Op, <<"S">>) THEN "S" ELSE "D"
    ELSE IF as.Op = <<"L", "D", "U", "R", "S">> THEN "X"
    ELSE IF as.Op = <<"S", "T", "U", "R", "S">> THEN "S"
    ELSE IF as.Op = <<"L", "D", "U", "R", "D">> THEN "X"
    ELSE IF as.Op = <<"S", "T", "U", "R", "D">> THEN "D"
    ELSE "X"

----------------------------------------------------------------------------
(* Tokens (lexer.go). The parser pulls items from the lexer one at a time; *)
(* here the lexer is the sequence of the items it has still to deliver,    *)
(* and a pull from a lexer that has delivered its last item panics (its    *)
(* state function is nil).                                                 *)

itemEOF == "itemEOF"
itemError == "itemError"
itemName == "itemName"
itemInteger == "itemInteger"
itemColon == "itemColon"
itemComma == "itemComma"
itemLbrack == "itemLbrack"
itemRbrack == "itemRbrack"

\* a nil *item, and the item of a pull that panicked
NoItem == [typ |-> "nil", text |-> <<>>]
PanicItem == [typ |-> "panic", text |-> <<>>]

\* lexer.nextItem on the items still to deliver
lexerNextItem(p) ==
    IF p.panicked \/ p.l = <<>>
    THEN [p |-> [p EXCEPT !.panicked = TRUE], i |-> PanicItem]
    ELSE [p |-> [p EXCEPT !.l = Tail(p.l)], i |-> Head(p.l)]

----------------------------------------------------------------------------
(* The lexer (lexer.go) on an input of one-byte characters. The lexer is   *)
(* the record of its fields; blocked says that it is stopped in a send on  *)
(* its full channel of items, which nothing will ever receive from, since  *)
(* the lexer runs in its caller's goroutine.                               *)

\* the rune next returns at the end of the input
eof == "eof"

Letters ==
    {"A", "B", "C", "D", "E", "F", "G", "H", "I", "J", "K", "L", "M", "N", "O", "P", "Q",
     "R", "S", "T", "U", "V", "W", "X", "Y", "Z",
     "a", "b", "c", "d", "e", "f", "g", "h", "i", "j", "k", "l", "m", "n", "o", "p", "q",
     "r", "s", "t", "u", "v", "w", "x", "y", "z"}

\* unicode.IsLetter, unicode.IsDigit and unicode.IsSpace on one-byte characters
IsLetter(c) == c \in Letters
IsNumber(c) == c \in {"0", "1", "2", "3", "4", "5", "6", "7", "8", "9"}
IsSpace(c) == c \in {" ", "\n", "\t", "\r"}

\* the capacity of the channel of items
ItemsCap == 2

\* lex
lex(input) ==
    [input |-> input, start |-> 0, pos |-> 0, width |-> 0, state |-> "lexInput",
     items |-> <<>>, blocked |-> FALSE]

\* lexer.next: the lexer after the call and the rune
next(l) ==
    IF l.pos >= Len(l.input) THEN [l |-> [l EXCEPT !.width = 0], r |-> eof]
    ELSE [l |-> [l EXCEPT !.width = 1, !.pos = @ + 1], r |-> l.input[l.pos + 1]]

\* lexer.backup
backup(l) == [l EXCEPT !.pos = @ - l.width]

\* lexer.ignore
ignore(l) == [l EXCEPT !.start = l.pos]

\* a send on the channel of items
send(l, i) ==
    IF Len(l.items) >= ItemsCap THEN [l EXCEPT !.blocked = TRUE]
    ELSE [l EXCEPT !.items = Append(@, i)]

\* lexer.emit
emit(l, t) ==
    LET s == send(l, [typ |-> t, text |-> SubSeq(l.input, l.start + 1, l.pos)])
    IN  IF s.blocked THEN s ELSE [s EXCEPT !.start = l.pos]

\* lexer.errorf: the state it returns is nil
errorf(l, msg) == [l |-> send(l, [typ |-> itemError, text |-> msg]), state |-> "nil"]

\* lexer.ignoreLine
RECURSIVE ignoreLineFrom(_)
ignoreLineFrom(l) ==
    LET n == next(l)
    IN  IF n.r = "\n" THEN [n.l EXCEPT !.start = n.l.pos]
        ELSE IF n.r = eof THEN [backup(n.l) EXCEPT !.start = backup(n.l).pos]
        ELSE ignoreLineFrom(n.l)

ignoreLine(l) == ignoreLineFrom(l)

\* lexer.accept on a one-character set
accept(l, valid) ==
    LET n == next(l)
    IN  IF n.r = valid THEN n.l ELSE backup(n.l)

\* lexer.acceptRange(unicode.IsLetter, unicode.IsDigit) and acceptRange(unicode.IsDigit)
RECURSIVE acceptRange(_, _)
acceptRange(l, letters) ==
    LET n == next(l)
    IN  IF (letters /\ IsLetter(n.r)) \/ IsNumber(n.r) THEN acceptRange(n.l, letters)
        ELSE backup(n.l)

\* the state function lexInput: the lexer after the call and the state returned
RECURSIVE lexInput(_)
lexInput(l0) ==
    LET n  == next(l0)
        l  == n.l
        r  == n.r
        n2 == next(l)
        punct(t) == LET e == emit(l, t)
                    IN  IF e.blocked THEN [l |-> e, state |-> "lexInput"] ELSE lexInput(e)
    IN  IF l0.blocked THEN [l |-> l0, state |-> "lexInput"]
        ELSE IF r = eof THEN [l |-> emit(l, itemEOF), state |-> "nil"]
        ELSE IF IsSpace(r) THEN lexInput(ignore(l))
        ELSE IF r = "\n" THEN lexInput(ignore(l))
        ELSE IF r = ";" THEN lexInput(ignoreLine(l))
        ELSE IF r = ":" THEN punct(itemColon)
        ELSE IF r = "," THEN punct(itemComma)
        ELSE IF r = "[" THEN punct(itemLbrack)
        ELSE IF r = "]" THEN punct(itemRbrack)
        ELSE IF r = "/"
        THEN IF n2.r = "/" THEN lexInput(ignoreLine(n2.l))
             ELSE errorf(n2.l, <<"unexpected '", r, "'">>)
        ELSE IF r = "#"
        THEN IF IsNumber(n2.r) THEN [l |-> backup(backup(n2.l)), state |-> "lexInteger"]
             ELSE errorf(n2.l, <<"missing digit">>)
        ELSE IF IsLetter(r) THEN [l |-> backup(l), state |-> "lexName"]
        ELSE IF IsNumber(r) THEN [l |-> backup(l), state |-> "lexInteger"]
        ELSE errorf(l, <<"unexpected '", r, "'">>)

\* the state function lexName
lexName(l) ==
    [l |-> emit(acceptRange(accept(acceptRange(l, TRUE), "."), TRUE), itemName),
     state |-> "lexInput"]

\* the state function lexInteger
lexInteger(l) ==
    [l |-> emit(acceptRange(accept(l, "#"), FALSE), itemInteger), state |-> "lexInput"]

\* lexer.nextItem: an item of the channel when it has one, else l.state = l.state(l)
\* and again; the call of a nil state panics, a blocked send never returns
RECURSIVE nextItem(_)
nextItem(l) ==
    IF l.items # <<>>
    THEN [l |-> [l EXCEPT !.items = Tail(@)], i |-> Head(l.items), status |-> "returned"]
    ELSE IF l.state = "nil" THEN [l |-> l, i |-> PanicItem, status |-> "panic"]
    ELSE LET r == IF l.state = "lexInput" THEN lexInput(l)
                  ELSE IF l.state = "lexName" THEN lexName(l)
                  ELSE lexInteger(l)
         IN  IF r.l.blocked THEN [l |-> r.l, i |-> NoItem, status |-> "blocked"]
             ELSE nextItem([r.l EXCEPT !.state = r.state])

\* the items a caller pulls from the lexer, up to the first EOF or Error
RECURSIVE PullFrom(_, _)
PullFrom(l, out) ==
    LET r == nextItem(l)
    IN  IF r.status # "returned" THEN [items |-> out, status |-> r.status]
        ELSE IF r.i.typ \in {itemEOF, itemError}
        THEN [items |-> Append(out, r.i), status |-> "returned"]
        ELSE PullFrom(r.l, Append(out, r.i))

Pull(input) == PullFrom(lex(input), <<>>)

----------------------------------------------------------------------------
(* The parser (parser.go). An error is the sequence of the parts of its    *)
(* message, outermost prefix first; nil is the empty sequence.             *)

nil == <<>>
EOF == <<"EOF">>

\* Parser.Use on the items the lexer will deliver
Use(items) == [l |-> items, pk |-> NoItem, panicked |-> FALSE]

\* Parser.nextItem: the peeked item, if any, else a pull
ParserNextItem(p) ==
    IF p.pk # NoItem THEN [p |-> [p EXCEPT !.pk = NoItem], i |-> p.pk]
    ELSE lexerNextItem(p)

\* Parser.peek: always a pull, stored as the peeked item
peeked(r) == [p |-> [r.p EXCEPT !.pk = r.i], i |-> r.i]

ParserPeek(p) == peeked(lexerNextItem(p))

\* Parser.expect, from the item t that nextItem returned
expectItem(t, typ) ==
    IF t.i.typ = itemEOF THEN [p |-> t.p, text |-> <<>>, err |-> EOF]
    ELSE IF t.i.typ # typ THEN [p |-> t.p, text |-> <<>>, err |-> <<"unexpected token">>]
    ELSE [p |-> t.p, text |-> t.i.text, err |-> nil]

expect(p, typ) == expectItem(ParserNextItem(p), typ)

\* Parser.has, from the item that peek returned
hasItem(r, typ) == [p |-> r.p, ok |-> r.i.typ = typ]

has(p, typ) == hasItem(ParserPeek(p), typ)

Digits == <<"0", "1", "2", "3", "4", "5", "6", "7", "8", "9">>

IsDigit(c) == \E i \in 1 .. Len(Digits) : Digits[i] = c

DigitVal(c) == (CHOOSE i \in 1 .. Len(Digits) : Digits[i] = c) - 1

RECURSIVE StripZeros(_)
StripZeros(s) == IF s # <<>> /\ Head(s) = "0" THEN StripZeros(Tail(s)) ELSE s

\* a < b for two digit strings of the same length
RECURSIVE DigitsLess(_, _)
DigitsLess(a, b) ==
    IF a = <<>> THEN FALSE
    ELSE IF DigitVal(Head(a)) # DigitVal(Head(b))
    THEN DigitVal(Head(a)) < DigitVal(Head(b))
    ELSE DigitsLess(Tail(a), Tail(b))

\* the digits of 2^bitSize - 1
MaxUint(bitSize) ==
    IF bitSize = 8 THEN <<"2", "5", "5">>
    ELSE IF bitSize = 32 THEN <<"4", "2", "9", "4", "9", "6", "7", "2", "9", "5">>
    ELSE <<"1", "8", "4", "4", "6", "7", "4", "4", "0", "7", "3", "7", "0", "9", "5",
           "5", "1", "6", "1", "5">>

RECURSIVE DecimalValue(_, _)
DecimalValue(s, acc) ==
    IF s = <<>> THEN acc ELSE DecimalValue(Tail(s), acc * 10 + DigitVal(Head(s)))

\* strconv.ParseUint(s, 10, bitSize): digits only, at most 2^bitSize - 1
ParseUint(s, bitSize) ==
    IF s = <<>> \/ \E i \in 1 .. Len(s) : ~IsDigit(s[i])
    THEN [n |-> 0, err |-> <<"invalid syntax">>]
    ELSE LET d == StripZeros(s)
             m == MaxUint(bitSize)
         IN  IF Len(d) > Len(m) \/ (Len(d) = Len(m) /\ DigitsLess(m, d))
             THEN [n |-> 0, err |-> <<"value out of range">>]
             ELSE [n |-> DecimalValue(d, 0), err |-> nil]

\* Parser.expectRegister, from the result e of expect(itemName)
registerNamed(e, prefix) ==
    LET t    == e.text
        base == IF prefix = "X" THEN X0 ELSE IF prefix = "S" THEN S0 ELSE D0
        max  == IF prefix = "X" THEN 30 ELSE 31
        bad  == [p |-> e.p, reg |-> 0, err |-> <<"not a register">>]
        n    == ParseUint(Tail(t), 8)
    IN  IF e.err # nil THEN [p |-> e.p, reg |-> 0, err |-> e.err]
        ELSE IF Len(t) > 3 THEN bad
        ELSE IF prefix \notin {"X", "S", "D"}
        THEN [p |-> e.p, reg |-> 0, err |-> <<"expecting register type">>]
        ELSE IF prefix = "X" /\ t = <<"S", "P">> THEN [p |-> e.p, reg |-> SP, err |-> nil]
        ELSE IF prefix = "X" /\ t = <<"F", "P">> THEN [p |-> e.p, reg |-> FP, err |-> nil]
        ELSE IF prefix = "X" /\ t = <<"L", "R">> THEN [p |-> e.p, reg |-> LR, err |-> nil]
        ELSE IF prefix = "X" /\ t = <<"X", "Z", "R">>
        THEN [p |-> e.p, reg |-> XZR, err |-> nil]
        ELSE IF prefix = "X" /\ t = <<"I", "P", "0">>
        THEN [p |-> e.p, reg |-> IP0, err |-> nil]
        ELSE IF prefix = "X" /\ t = <<"I", "P", "1">>
        THEN [p |-> e.p, reg |-> IP1, err |-> nil]
        ELSE IF Head(t) # prefix THEN bad
        ELSE IF n.err # nil \/ n.n > max THEN bad
        ELSE [p |-> e.p, reg |-> base + n.n, err |-> nil]

expectRegister(p, prefix) == registerNamed(expect(p, itemName), prefix)

\* Parser.expectImmediate, from the result e of expect(itemInteger): the limit
\* is always 32 bits
immediateOf(e) ==
    LET imm == IF e.text # <<>> /\ Head(e.text) = "#" THEN Tail(e.text) ELSE e.text
        n   == ParseUint(imm, 32)
    IN  IF e.err # nil
        THEN [p |-> e.p, n |-> 0, err |-> <<"not an integer: ">> \o e.err]
        ELSE IF n.err # nil THEN [p |-> e.p, n |-> 0, err |-> n.err]
        ELSE [p |-> e.p, n |-> n.n, err |-> nil]

\* bitsize is not used
expectImmediate(p, bitsize) == immediateOf(expect(p, itemInteger))

\* Parser.expectOffset, statement by statement: each step takes the result of
\* the call before it and the address read so far
offsetRbrack(e, a) == [p |-> e.p, addr |-> a, err |-> e.err]

offsetImmediate(o, a) ==
    IF o.err # nil
    THEN [p |-> o.p, addr |-> [a EXCEPT !.Offset = o.n], err |-> <<"offset: ">> \o o.err]
    ELSE offsetRbrack(expect(o.p, itemRbrack), [a EXCEPT !.Offset = o.n])

offsetComma(e, a) ==
    IF e.err # nil THEN [p |-> e.p, addr |-> a, err |-> e.err]
    ELSE offsetImmediate(expectImmediate(e.p, 32), a)

offsetRegister(r) ==
    IF r.err # nil THEN [p |-> r.p, addr |-> [ZeroAddr EXCEPT !.Reg = r.reg], err |-> r.err]
    ELSE offsetComma(expect(r.p, itemComma), [ZeroAddr EXCEPT !.Reg = r.reg])

offsetLbrack(e, as) ==
    IF e.err # nil THEN [p |-> e.p, addr |-> ZeroAddr, err |-> e.err]
    ELSE offsetRegister(expectRegister(e.p, registerPrefix(as)))

expectOffset(p, as) == offsetLbrack(expect(p, itemLbrack), as)

\* Parser.expectAddr: the test for an integer pulls a new item
addrOffset(e) ==
    LET n == ParseUint(e.text, 64)
    IN  IF e.err # nil THEN [p |-> e.p, addr |-> ZeroAddr, err |-> <<"to: ">> \o e.err]
        ELSE IF n.err # nil
        THEN [p |-> e.p, addr |-> [ZeroAddr EXCEPT !.Offset = n.n],
              err |-> <<"to: ">> \o n.err]
        ELSE [p |-> e.p, addr |-> [ZeroAddr EXCEPT !.Offset = n.n], err |-> nil]

addrLabel(e) ==
    IF e.err # nil
    THEN [p |-> e.p, addr |-> [ZeroAddr EXCEPT !.Label = e.text], err |-> <<"to: ">> \o e.err]
    ELSE [p |-> e.p, addr |-> [ZeroAddr EXCEPT !.Label = e.text], err |-> nil]

addrAfter(h) ==
    IF h.ok THEN addrOffset(expect(h.p, itemInteger))
    ELSE addrLabel(expect(h.p, itemName))

expectAddr(p, as) == addrAfter(has(p, itemInteger))

\* fmt.Errorf(prefix + "%v", err) when err is not nil
wrapped(prefix, err) == IF err # nil THEN <<prefix>> \o err ELSE nil

\* rformatParser, statement by statement: each step takes the result of the
\* call before it and the instruction filled so far
rformatReg(r, as) ==
    [p |-> r.p, as |-> [as EXCEPT !.Reg = r.reg], err |-> wrapped("second operand: ", r.err)]

rformatComma2(e, as) ==
    IF e.err # nil THEN [p |-> e.p, as |-> as, err |-> e.err]
    ELSE rformatReg(expectRegister(e.p, registerPrefix(as)), as)

rformatFrom(r, as) ==
    IF r.err # nil
    THEN [p |-> r.p, as |-> [as EXCEPT !.From.Reg = r.reg],
          err |-> <<"first operand: ">> \o r.err]
    ELSE rformatComma2(expect(r.p, itemComma), [as EXCEPT !.From.Reg = r.reg])

rformatComma1(e, as) ==
    IF e.err # nil THEN [p |-> e.p, as |-> as, err |-> e.err]
    ELSE rformatFrom(expectRegister(e.p, registerPrefix(as)), as)

rformatTo(r, as) ==
    IF r.err # nil
    THEN [p |-> r.p, as |-> [as EXCEPT !.To.Reg = r.reg], err |-> <<"to: ">> \o r.err]
    ELSE rformatComma1(expect(r.p, itemComma), [as EXCEPT !.To.Reg = r.reg])

rformatParser(p, as) == rformatTo(expectRegister(p, registerPrefix(as)), as)

\* dformatParser
dformatFrom(o, as) ==
    [p |-> o.p, as |-> [as EXCEPT !.From = o.addr], err |-> wrapped("from: ", o.err)]

dformatComma(e, as) ==
    IF e.err # nil THEN [p |-> e.p, as |-> as, err |-> e.err]
    ELSE dformatFrom(expectOffset(e.p, as), as)

dformatTo(r, as) ==
    IF r.err # nil
    THEN [p |-> r.p, as |-> [as EXCEPT !.To.Reg = r.reg], err |-> <<"to: ">> \o r.err]
    ELSE dformatComma(expect(r.p, itemComma), [as EXCEPT !.To.Reg = r.reg])

dformatParser(p, as) == dformatTo(expectRegister(p, registerPrefix(as)), as)

\* iformatParser
iformatImm(i, as) ==
    [p |-> i.p, as |-> [as EXCEPT !.Imm = i.n], err |-> wrapped("immediate: ", i.err)]

iformatComma2(e, as) ==
    IF e.err # nil THEN [p |-> e.p, as |-> as, err |-> e.err]
    ELSE iformatImm(expectImmediate(e.p, 16), as)

iformatFrom(r, as) ==
    IF r.err # nil
    THEN [p |-> r.p, as |-> [as EXCEPT !.From.Reg = r.reg],
          err |-> <<"first operand: ">> \o r.err]
    ELSE iformatComma2(expect(r.p, itemComma), [as EXCEPT !.From.Reg = r.reg])

iformatComma1(e, as) ==
    IF e.err # nil THEN [p |-> e.p, as |-> as, err |-> e.err]
    ELSE iformatFrom(expectRegister(e.p, registerPrefix(as)), as)

iformatTo(r, as) ==
    IF r.err # nil
    THEN [p |-> r.p, as |-> [as EXCEPT !.To.Reg = r.reg], err |-> <<"to: ">> \o r.err]
    ELSE iformatComma1(expect(r.p, itemComma), [as EXCEPT !.To.Reg = r.reg])

iformatParser(p, as) == iformatTo(expectRegister(p, registerPrefix(as)), as)

\* bformatParser
bformatRegister(r, as) ==
    [p |-> r.p, as |-> [as EXCEPT !.To.Reg = r.reg], err |-> wrapped("to: ", r.err)]

bformatTo(a, as) ==
    [p |-> a.p, as |-> [as EXCEPT !.To = a.addr], err |-> wrapped("to: ", a.err)]

bformatParser(p, as) ==
    IF as.Op = <<"B", "R">> THEN bformatRegister(expectRegister(p, registerPrefix(as)), as)
    ELSE bformatTo(expectAddr(p, as), as)

\* cbformatParser: the register goes to From.Reg, the label to To.Label
cbformatTo(e, as) ==
    [p |-> e.p, as |-> [as EXCEPT !.To.Label = e.text], err |-> wrapped("to: ", e.err)]

cbformatComma(e, as) ==
    IF e.err # nil THEN [p |-> e.p, as |-> as, err |-> e.err]
    ELSE cbformatTo(expect(e.p, itemName), as)

cbformatFrom(r, as) ==
    IF r.err # nil
    THEN [p |-> r.p, as |-> [as EXCEPT !.From.Reg = r.reg], err |-> <<"from: ">> \o r.err]
    ELSE cbformatComma(expect(r.p, itemComma), [as EXCEPT !.From.Reg = r.reg])

cbformatParser(p, as) == cbformatFrom(expectRegister(p, registerPrefix(as)), as)

\* iwformatParser
iwformatImm(i, as) ==
    [p |-> i.p, as |-> [as EXCEPT !.Imm = i.n], err |-> wrapped("immediate: ", i.err)]

iwformatComma(e, as) ==
    IF e.err # nil THEN [p |-> e.p, as |-> as, err |-> e.err]
    ELSE iwformatImm(expectImmediate(e.p, 32), as)

iwformatTo(r, as) ==
    IF r.err # nil
    THEN [p |-> r.p, as |-> [as EXCEPT !.To.Reg = r.reg], err |-> <<"to: ">> \o r.err]
    ELSE iwformatComma(expect(r.p, itemComma), [as EXCEPT !.To.Reg = r.reg])

iwformatParser(p, as) == iwformatTo(expectRegister(p, registerPrefix(as)), as)

MissingParser == "missing parser"

\* f.p(p, &as): the parser of an instruction format
formatParser(f, p, as) ==
    IF f = "rformat" THEN rformatParser(p, as)
    ELSE IF f = "iformat" THEN iformatParser(p, as)
    ELSE IF f = "dformat" THEN dformatParser(p, as)
    ELSE IF f = "bformat" THEN bformatParser(p, as)
    ELSE IF f = "cbformat" THEN cbformatParser(p, as)
    ELSE iwformatParser(p, as)

\* Parser.Next, statement by statement: what the format's parser returned
nextParsed(r) == [p |-> r.p, as |-> r.as, err |-> r.err, panic |-> NoPanic]

\* the operands of instruction as, whose mnemonic has been read
nextOperands(p, as) ==
    IF as.Op \notin DOMAIN opcodes
    THEN [p |-> p, as |-> as, err |-> <<"opcode not supported">>, panic |-> NoPanic]
    ELSE IF opcodes[as.Op] = "imformat"
    THEN [p |-> p, as |-> as, err |-> nil, panic |-> MissingParser]
    ELSE nextParsed(formatParser(opcodes[as.Op], p, as))

\* the mnemonic after a label
nextOp(e, name) ==
    IF e.err # nil
    THEN [p |-> e.p, as |-> [ZeroInstruction EXCEPT !.Label = name], err |-> e.err,
          panic |-> NoPanic]
    ELSE nextOperands(e.p, [ZeroInstruction EXCEPT !.Label = name, !.Op = e.text])

\* the test for a colon after the first name
nextColon(h, name) ==
    IF h.ok THEN nextOp(expect(expect(h.p, itemColon).p, itemName), name)
    ELSE nextOperands(h.p, [ZeroInstruction EXCEPT !.Op = name])

\* the first name of the line
nextName(e) ==
    IF e.err # nil
    THEN [p |-> e.p, as |-> ZeroInstruction, err |-> e.err, panic |-> NoPanic]
    ELSE nextColon(has(e.p, itemColon), e.text)

\* Parser.Next: an optional label, the mnemonic, then the operands of its format
ParserNext(p) == nextName(expect(p, itemName))

\* the loop of main over Parser.Next: the program parsed so far, and how it ended
RECURSIVE ParseFrom(_, _)
ParseFrom(p, program) ==
    LET n == ParserNext(p)
    IN  IF n.p.panicked THEN [prog |-> program, err |-> nil, panic |-> "nil state"]
        ELSE IF n.panic # NoPanic THEN [prog |-> program, err |-> nil, panic |-> n.panic]
        ELSE IF n.err # nil THEN [prog |-> program, err |-> n.err, panic |-> NoPanic]
        ELSE ParseFrom(n.p, Append(program, n.as))

Parse(items) == ParseFrom(Use(items), <<>>)

\* items of a source line
Name(text) == [typ |-> itemName, text |-> text]
Integer(text) == [typ |-> itemInteger, text |-> text]
Colon == [typ |-> itemColon, text |-> <<":">>]
Comma == [typ |-> itemComma, text |-> <<",">>]
Lbrack == [typ |-> itemLbrack, text |-> <<"[">>]
Rbrack == [typ |-> itemRbrack, text |-> <<"]">>]
EOFItem == [typ |-> itemEOF, text |-> <<>>]

----------------------------------------------------------------------------
(* Programs given to Load. An instruction carries its operands in the      *)
(* fields its format's parser and printer use (parser.go).                 *)

\* the first register of the bank an instruction's operands are in
base(as) ==
    IF registerPrefix(as) = "X" THEN X0
    ELSE IF registerPrefix(as) = "S" THEN S0 ELSE D0

Op(op) == [ZeroInstruction EXCEPT !.Op = op]

\* OP Rd, Rn, Rm
rformatFields(op, rd, rn, rm) ==
    [Op(op) EXCEPT !.To.Reg = base(Op(op)) + rd, !.From.Reg = base(Op(op)) + rn,
                   !.Reg = base(Op(op)) + rm]

\* OP Rd, Rn, #imm
iformatFields(op, rd, rn, imm) ==
    [Op(op) EXCEPT !.To.Reg = base(Op(op)) + rd, !.From.Reg = base(Op(op)) + rn,
                   !.Imm = imm]

\* OP Rt, [Rn, #off]
dformatFields(op, rt, rn, off) ==
    [Op(op) EXCEPT !.To.Reg = base(Op(op)) + rt, !.From.Reg = base(Op(op)) + rn,
                   !.From.Offset = off]

\* OP label, OP offset and BR Rn
bformatLabel(op, label) == [Op(op) EXCEPT !.To.Label = label]
bformatOffset(op, off) == [Op(op) EXCEPT !.To.Offset = off]
bformatReg(op, rn) == [Op(op) EXCEPT !.To.Reg = rn]

\* OP Rd, #imm
iwformatFields(op, rd, imm) == [Op(op) EXCEPT !.To.Reg = rd, !.Imm = imm]

\* label: instruction
Labelled(label, as) == [as EXCEPT !.Label = label]

L == <<"L">>

\* an instruction that changes no register and no flag: ORR X3, X3, X3
Filler == rformatFields(<<"O", "R", "R">>, X3, X3, X3)

\* the source line OP X1, L followed by two filler lines, the second labelled L,
\* as main parses it
CBSource(op) ==
    <<Name(op), Name(<<"X", "1">>), Comma, Name(L),
      Name(<<"O", "R", "R">>), Name(<<"X", "3">>), Comma, Name(<<"X", "3">>), Comma,
          Name(<<"X", "3">>),
      Name(L), Colon, Name(<<"O", "R", "R">>), Name(<<"X", "3">>), Comma,
          Name(<<"X", "3">>), Comma, Name(<<"X", "3">>),
      EOFItem>>

\* one program for a mnemonic of the opcode table
OpProgram(op) ==
    LET f == opcodes[op]
    IN  IF f = "rformat" THEN <<rformatFields(op, 0, 1, 2)>>
        ELSE IF f = "iformat" THEN <<iformatFields(op, 0, 1, 1)>>
        ELSE IF f = "dformat" THEN <<dformatFields(op, 0, 1, 0)>>
        ELSE IF f = "bformat"
        THEN IF op = <<"B", "R">> THEN <<bformatReg(op, X1)>>
             ELSE <<bformatLabel(op, L), Filler, Labelled(L, Filler)>>
        ELSE IF f = "cbformat" THEN Parse(CBSource(op)).prog
        ELSE <<iwformatFields(op, X0, 1)>>

ADDI == <<"A", "D", "D", "I">>

\* scenario S1: immediate add and store
S1Program ==
    <<iformatFields(ADDI, X1, XZR, 5),
      iformatFields(ADDI, X2, XZR, 7),
      rformatFields(<<"A", "D", "D">>, X3, X1, X2),
      dformatFields(<<"S", "T", "U", "R">>, X3, XZR, 0)>>

\* scenario S2: call and return
S2Program ==
    <<bformatLabel(<<"B", "L">>, <<"f", "u", "n", "c">>),
      bformatLabel(<<"B">>, <<"e", "n", "d">>),
      Labelled(<<"f", "u", "n", "c">>, iformatFields(ADDI, X0, XZR, 42)),
      bformatReg(<<"B", "R">>, LR),
      Labelled(<<"e", "n", "d">>, iformatFields(ADDI, X1, XZR, 1))>>

\* scenario S3: conditional branch on equality; the label done is on no instruction
S3Program ==
    <<iformatFields(ADDI, X1, XZR, 3),
      iformatFields(ADDI, X2, XZR, 3),
      rformatFields(<<"S", "U", "B", "S">>, X3, X1, X2),
      bformatLabel(<<"B", ".", "E", "Q">>, <<"e", "q", "u", "a", "l">>),
      iformatFields(ADDI, X0, XZR, 0),
      bformatLabel(<<"B">>, <<"d", "o", "n", "e">>),
      Labelled(<<"e", "q", "u", "a", "l">>, iformatFields(ADDI, X0, XZR, 1))>>

\* programs that name XZR as a destination, and a branch by offset
ExtraPrograms ==
    {<<>>,
     <<rformatFields(<<"A", "D", "D">>, XZR, X1, X2)>>,
     <<rformatFields(<<"A", "D", "D">>, X0, XZR, X2)>>,
     <<bformatOffset(<<"B">>, 2), Filler, Filler>>}

\* a label that no instruction carries
Nowhere == <<"n", "o", "w", "h", "e", "r", "e">>

\* programs whose second instruction branches to a label that no instruction
\* carries
UndefinedLabelPrograms ==
    {<<Filler, bformatLabel(op, Nowhere)>> :
        op \in {<<"B">>, <<"B", "L">>, <<"B", ".", "N", "E">>}}

Programs ==
    {OpProgram(op) : op \in OpNames} \cup {S1Program, S2Program, S3Program}
        \cup ExtraPrograms \cup UndefinedLabelPrograms

----------------------------------------------------------------------------
(* The state machine. A client owns one CPU: it loads a program, sets the  *)
(* exported field Flags and calls Step. main (the command) loads the       *)
(* program it parsed and calls Step until Step returns false.              *)

\* number of outcomes of the random fill of a new memory block in a Step
NumFills == 2
FillSeeds == 0 .. (NumFills - 1)

\* the fields of the CPU
cpuNow ==
    [PC |-> PC, Registers |-> Registers, Flags |-> Flags, Err |-> Err,
     Memory |-> Memory, labels |-> labels, prog |-> prog]

Becomes(c) ==
    /\ PC' = c.PC
    /\ Registers' = c.Registers
    /\ Flags' = c.Flags
    /\ Err' = c.Err
    /\ Memory' = c.Memory
    /\ labels' = c.labels
    /\ prog' = c.prog

\* last: the call of Step that led to this state, with the fields it started from
NoStep ==
    [step |-> FALSE, fetched |-> FALSE, as |-> ZeroInstruction, PC |-> 0, Flags |-> 0,
     Registers |-> [i \in RegIndex |-> 0]]

StepFrom(c) ==
    [step |-> TRUE,
     fetched |-> Len(c.prog) # 0 /\ c.PC < Len(c.prog),
     as |-> IF Len(c.prog) # 0 /\ c.PC < Len(c.prog) THEN c.prog[c.PC + 1]
            ELSE ZeroInstruction,
     PC |-> c.PC, Flags |-> c.Flags, Registers |-> c.Registers]

\* no Memory of its own, no thread, no lexer and no parser is in use
OnlyCPU == io = <<>> /\ threads = <<>> /\ lexer = <<>> /\ parser = <<>>

\* the zero value of CPU
ZeroCPU ==
    /\ PC = 0
    /\ Registers = [i \in RegIndex |-> 0]
    /\ Flags = 0
    /\ Err = nil
    /\ Memory = [nil |-> TRUE, blocks |-> <<>>]
    /\ labels = <<>>
    /\ prog = <<>>
    /\ ret = FALSE
    /\ panicked = NoPanic
    /\ last = NoStep

Init == ZeroCPU /\ pc = "client" /\ OnlyCPU

\* cpu.Load(p), once per CPU
CallLoad(p, seed) ==
    /\ pc = "client"
    /\ panicked = NoPanic
    /\ Memory.nil
    /\ \E c \in {Load(cpuNow, p, seed)} : Becomes(c)
    /\ last' = NoStep
    /\ UNCHANGED <<ret, panicked, pc>>
    /\ UNCHANGED others

\* the effect of one call of Step
DoStep(fill) ==
    \E r \in {Step(cpuNow, fill)} :
        /\ Becomes(r.cpu)
        /\ ret' = r.ret
        /\ panicked' = r.panic
        /\ last' = StepFrom(cpuNow)
        /\ UNCHANGED others

\* cpu.Step()
CallStep ==
    /\ pc = "client"
    /\ panicked = NoPanic
    /\ \E fill \in FillSeeds : DoStep(fill)
    /\ UNCHANGED pc

\* cpu.Flags = f
SetFlags(f) ==
    /\ pc = "client"
    /\ panicked = NoPanic
    /\ ~Memory.nil
    /\ Flags' = f
    /\ last' = NoStep
    /\ UNCHANGED <<PC, Registers, Err, Memory, labels, prog, ret, panicked, pc>>
    /\ UNCHANGED others

Next ==
    \/ \E p \in Programs, seed \in Seeds : CallLoad(p, seed)
    \/ CallStep
    \/ \E f \in AllFlags : SetFlags(f)

Spec == Init /\ [][Next]_vars

\* main: cpu.Load(prog), then for cpu.Step() {}, on the scenario programs
MainPrograms == {S1Program, S2Program, S3Program}

InitMain == ZeroCPU /\ pc = "load" /\ OnlyCPU

MainLoad ==
    /\ pc = "load"
    /\ \E p \in MainPrograms, seed \in Seeds :
           \E c \in {Load(cpuNow, p, seed)} : Becomes(c)
    /\ pc' = "loop"
    /\ last' = NoStep
    /\ UNCHANGED <<ret, panicked>>
    /\ UNCHANGED others

MainStep ==
    /\ pc = "loop"
    /\ \E fill \in FillSeeds : DoStep(fill)
    /\ pc' = IF ret' /\ panicked' = NoPanic THEN "loop" ELSE "exit"

NextMain == MainLoad \/ MainStep

SpecMain == InitMain /\ [][NextMain]_vars /\ WF_vars(MainStep)

\* a client that loads a program on a CPU it has used before: pc is "fresh"
\* for the zero CPU, "loaded" right after a Load has returned, "stepped" after
\* a Step
ReloadPrograms == MainPrograms \cup {<<>>}

InitReload == ZeroCPU /\ pc = "fresh" /\ OnlyCPU

\* cpu.Load(p) on the CPU as it is
Reload(p, seed) ==
    /\ pc \in {"fresh", "loaded", "stepped"}
    /\ panicked = NoPanic
    /\ \E c \in {Load(cpuNow, p, seed)} : Becomes(c)
    /\ pc' = "loaded"
    /\ last' = NoStep
    /\ UNCHANGED <<ret, panicked>>
    /\ UNCHANGED others

\* cpu.Step() on a loaded CPU
StepLoaded ==
    /\ pc \in {"loaded", "stepped"}
    /\ panicked = NoPanic
    /\ \E fill \in FillSeeds : DoStep(fill)
    /\ pc' = "stepped"

NextReload ==
    \/ \E p \in ReloadPrograms, seed \in Seeds : Reload(p, seed)
    \/ StepLoaded

SpecReload == InitReload /\ [][NextReload]_vars

----------------------------------------------------------------------------
(* A client of one Memory: it calls Write and Read, MaxCalls times in all.  *)
(* io keeps the number of calls made, the last Write (w) and, when the last *)
(* call was a Read, that Read (r).                                          *)

\* number of calls of Read and Write the client makes
MaxCalls == 3

\* addresses at the start, in the middle and at the last byte of a block, and lengths that
\* stay in a block, cross one boundary and cross two
MemAddrs == {0, BlockSize \div 2, BlockSize - 1}
MemLens == {0, 1, 2, BlockSize + 2}
MemTags == {1, 2}

\* the bytes a caller writes, and the buffer a caller reads into
MemBuf(len, tag) == [i \in 1 .. len |-> (i * 3 + tag) % 256]
ZeroBuf(len) == [i \in 1 .. len |-> 0]

NoCall == [valid |-> FALSE, addr |-> 0, b |-> <<>>, n |-> 0]

\* m := &Memory{}; no CPU is in use
InitMem ==
    /\ PC = 0 /\ Registers = [i \in RegIndex |-> 0] /\ Flags = 0 /\ Err = nil
    /\ labels = <<>> /\ prog = <<>> /\ ret = FALSE /\ panicked = NoPanic
    /\ last = NoStep
    /\ pc = "memory"
    /\ Memory = [nil |-> FALSE, blocks |-> <<>>]
    /\ io = [calls |-> 0, w |-> NoCall, r |-> NoCall]
    /\ threads = <<>> /\ lexer = <<>> /\ parser = <<>>

\* n, err := m.Write(b, addr)
CallWrite(b, at) ==
    /\ pc = "memory"
    /\ io.calls < MaxCalls
    /\ \E fill \in FillSeeds :
           \E res \in {Write(Memory, b, at, fill)} :
               /\ Memory' = res.m
               /\ io' = [calls |-> io.calls + 1,
                         w |-> [valid |-> TRUE, addr |-> at, b |-> b, n |-> res.n],
                         r |-> NoCall]
    /\ UNCHANGED <<PC, Registers, Flags, Err, labels, prog, ret, panicked, pc, last>>
    /\ UNCHANGED <<threads, lexer, parser>>

\* n, err := m.Read(b, addr) with len(b) = len
CallRead(len, at) ==
    /\ pc = "memory"
    /\ io.calls < MaxCalls
    /\ \E fill \in FillSeeds :
           \E res \in {Read(Memory, ZeroBuf(len), at, fill)} :
               /\ Memory' = res.m
               /\ io' = [io EXCEPT !.calls = io.calls + 1,
                                   !.r = [valid |-> TRUE, addr |-> at, b |-> res.b,
                                          n |-> res.n]]
    /\ UNCHANGED <<PC, Registers, Flags, Err, labels, prog, ret, panicked, pc, last>>
    /\ UNCHANGED <<threads, lexer, parser>>

NextMem ==
    \/ \E len \in MemLens, tag \in MemTags, at \in MemAddrs :
           CallWrite(MemBuf(len, tag), at)
    \/ \E len \in MemLens, at \in MemAddrs : CallRead(len, at)

SpecMem == InitMem /\ [][NextMem]_vars

----------------------------------------------------------------------------
(* Threads that share one Memory. A call of Read or Write runs its loop;   *)
(* each turn calls getOrMakeBlock, which takes the mutex mu, looks the      *)
(* block up, makes and inserts it when it is missing, and releases mu on    *)
(* return; the turn then copies bytes to or from the block it was given,    *)
(* outside the mutex. A block is an object of the heap, named by its id; a  *)
(* block's data is its random fill and the bytes written over it.           *)

\* number of threads, and of calls each thread makes
NumThreads == 2
MaxThreadCalls == 2

Threads == 1 .. NumThreads

\* the calls a thread makes: two bytes over the boundary of blocks 0 and 1,
\* or the first byte of block 1; every turn of a loop moves one byte
ThreadCalls ==
    {[op |-> o, addr |-> a[1], len |-> a[2]] :
        o \in {"Read", "Write"}, a \in {<<BlockSize - 1, 2>>, <<BlockSize, 1>>}}

\* the bytes thread t writes
ThreadByte(t) == 100 + t

IdleThread ==
    [pc |-> "idle", op |-> "", addr |-> 0, b |-> <<>>, n |-> 0, k |-> 0, bk |-> 0, calls |-> 0]

\* byte i of a block
BlockByte(bk, i) == IF i \in DOMAIN bk.data THEN bk.data[i] ELSE RandomByte(bk.fill, i)

InitThreads ==
    /\ ZeroCPU
    /\ pc = "threads"
    /\ io = <<>> /\ lexer = <<>> /\ parser = <<>>
    /\ threads = [mu |-> 0, nilmap |-> TRUE, blocks |-> <<>>, heap |-> <<>>,
                  t |-> [i \in Threads |-> IdleThread],
                  made |-> <<>>, first |-> <<>>, wrote |-> <<>>]

Alone == UNCHANGED cpuVars /\ UNCHANGED <<io, lexer, parser>>

\* thread i calls m.Read(b, addr) or m.Write(b, addr)
ThreadCall(i, c) ==
    /\ pc = "threads"
    /\ threads.t[i].pc = "idle"
    /\ threads.t[i].calls < MaxThreadCalls
    /\ threads' = [threads EXCEPT !.t[i] =
           [@ EXCEPT !.pc = "lock", !.op = c.op, !.addr = c.addr, !.n = 0,
                     !.b = [j \in 1 .. c.len |->
                               IF c.op = "Write" THEN ThreadByte(i) ELSE 0],
                     !.calls = @ + 1]]
    /\ Alone

\* a Lock that does not wait for the mutex
LockAnyway(i) ==
    /\ pc = "threads"
    /\ threads.t[i].pc = "lock"
    /\ threads' = [threads EXCEPT !.mu = i, !.t[i].pc = "lookup"]
    /\ Alone

\* getOrMakeBlock: m.mu.Lock()
Lock(i) ==
    /\ pc = "threads"
    /\ threads.t[i].pc = "lock"
    /\ threads.mu = 0
    /\ threads' = [threads EXCEPT !.mu = i, !.t[i].pc = "lookup"]
    /\ Alone

\* getOrMakeBlock: the map is made when nil; k := addr / BlockSize; the block
\* of k is returned when the map has it
Lookup(i) ==
    /\ pc = "threads"
    /\ threads.t[i].pc = "lookup"
    /\ LET th == threads.t[i]
           k  == (th.addr + th.n) \div BlockSize
       IN  threads' =
               IF k \in DOMAIN threads.blocks
               THEN [threads EXCEPT !.nilmap = FALSE,
                                    !.t[i] = [@ EXCEPT !.k = k, !.bk = threads.blocks[k],
                                                       !.pc = "unlock"]]
               ELSE [threads EXCEPT !.nilmap = FALSE,
                                    !.t[i] = [@ EXCEPT !.k = k, !.pc = "make"]]
    /\ Alone

\* getOrMakeBlock: a new block, filled by random.Read, is put in the map
Make(i, fill) ==
    /\ pc = "threads"
    /\ threads.t[i].pc = "make"
    /\ LET k  == threads.t[i].k
           id == Cardinality(DOMAIN threads.heap) + 1
       IN  threads' =
               [threads EXCEPT
                   !.heap = (id :> [off |-> k * BlockSize, fill |-> fill, data |-> <<>>]) @@ @,
                   !.blocks = (k :> id) @@ @,
                   !.made = (k :> (IF k \in DOMAIN @ THEN @[k] ELSE 0) + 1) @@ @,
                   !.first = IF k \in DOMAIN @ THEN @ ELSE (k :> id) @@ @,
                   !.t[i] = [@ EXCEPT !.bk = id, !.pc = "unlock"]]
    /\ Alone

\* getOrMakeBlock returns: the deferred m.mu.Unlock()
Unlock(i) ==
    /\ pc = "threads"
    /\ threads.t[i].pc = "unlock"
    /\ threads' = [threads EXCEPT !.mu = 0, !.t[i].pc = "copy"]
    /\ Alone

\* the copy of a turn of the loop, and the test of the next turn
Copy(i) ==
    /\ pc = "threads"
    /\ threads.t[i].pc = "copy"
    /\ LET th    == threads.t[i]
           total == Len(th.b)
           off   == (th.addr + th.n) % BlockSize
           end0  == off + total - th.n
           end   == IF end0 > BlockSize THEN BlockSize ELSE end0
           cnt   == Min(end - off, total - th.n)
           bk    == threads.heap[th.bk]
           n2    == th.n + cnt
           pc2   == IF n2 < total THEN "lock" ELSE "idle"
       IN  IF th.op = "Write"
           THEN threads' =
                    [threads EXCEPT
                        !.heap[th.bk].data =
                            [j \in off .. (off + cnt - 1) |-> th.b[th.n + (j - off) + 1]] @@ @,
                        !.wrote =
                            [l \in {<<th.k, j>> : j \in off .. (off + cnt - 1)} |->
                                (IF l \in DOMAIN @ THEN @[l] ELSE {})
                                    \cup {th.b[th.n + (l[2] - off) + 1]}] @@ @,
                        !.t[i] = [@ EXCEPT !.n = n2, !.pc = pc2]]
           ELSE threads' =
                    [threads EXCEPT
                        !.t[i] = [@ EXCEPT
                            !.b = [j \in 1 .. total |->
                                      IF j > th.n /\ j <= th.n + cnt
                                      THEN BlockByte(bk, off + (j - th.n - 1))
                                      ELSE th.b[j]],
                            !.n = n2, !.pc = pc2]]
    /\ Alone

NextThreads ==
    \E i \in Threads :
        \/ \E c \in ThreadCalls : ThreadCall(i, c)
        \/ Lock(i)
        \/ Lookup(i)
        \/ \E fill \in FillSeeds : Make(i, fill)
        \/ Unlock(i)
        \/ Copy(i)

SpecThreads == InitThreads /\ [][NextThreads]_vars

----------------------------------------------------------------------------
(* A caller of the lexer: it makes a lexer on an input and calls nextItem. *)
(* lexer keeps the lexer (l), the items returned so far (out) and how the  *)
(* last call ended (status).                                               *)

\* the longest input
MaxInput == 3

\* the characters of the inputs: a letter, a digit, the punctuation, the
\* starts of a comment, a space, a newline and a character of no token
LexChars == {"A", "1", ",", ":", "[", "]", "#", ".", "/", ";", " ", "\n", "?"}

RECURSIVE Inputs(_)
Inputs(n) ==
    IF n = 0 THEN {<<>>}
    ELSE Inputs(n - 1) \cup {Append(w, c) : w \in Inputs(n - 1), c \in LexChars}

InitLex ==
    /\ ZeroCPU
    /\ pc = "lexer"
    /\ io = <<>> /\ threads = <<>> /\ parser = <<>>
    /\ \E input \in Inputs(MaxInput) :
           lexer = [l |-> lex(input), out |-> <<>>, status |-> "returned"]

\* i := l.nextItem()
CallNextItem ==
    /\ pc = "lexer"
    /\ lexer.status = "returned"
    /\ \E r \in {nextItem(lexer.l)} :
           lexer' = [l |-> r.l,
                     out |-> IF r.status = "returned" THEN Append(lexer.out, r.i)
                             ELSE lexer.out,
                     status |-> r.status]
    /\ UNCHANGED cpuVars
    /\ UNCHANGED <<io, threads, parser>>

NextLex == CallNextItem

SpecLex == InitLex /\ [][NextLex]_vars

----------------------------------------------------------------------------
(* Printing (asm.go, parser.go): Instruction.String *)

\* fmt's %d of an unsigned number
RECURSIVE Decimal(_)
Decimal(n) ==
    IF n < 10 THEN <<Digits[n + 1]>> ELSE Decimal(n \div 10) \o <<Digits[(n % 10) + 1]>>

\* Register.String
RegisterString(r) ==
    IF r <= X30 THEN <<"X">> \o Decimal(r)
    ELSE IF r = XZR THEN <<"X", "Z", "R">>
    ELSE IF r >= S0 /\ r <= S31 THEN <<"S">> \o Decimal(r - S0)
    ELSE IF r >= D0 /\ r <= D31 THEN <<"D">> \o Decimal(r - D0)
    ELSE <<"i", "n", "v", "a", "l", "i", "d">>

rformatString(as) ==
    RegisterString(as.To.Reg) \o <<",">> \o RegisterString(as.From.Reg) \o <<",">>
        \o RegisterString(as.Reg)

offsetString(a) ==
    <<"[">> \o RegisterString(a.Reg) \o <<",", "#">> \o Decimal(a.Offset) \o <<"]">>

dformatString(as) == RegisterString(as.To.Reg) \o <<",">> \o offsetString(as.From)

iformatString(as) ==
    RegisterString(as.To.Reg) \o <<",">> \o RegisterString(as.From.Reg) \o <<",", "#">>
        \o Decimal(as.Imm)

\* bformatString: the label, or else the offset; the register of BR is not printed
bformatString(as) == IF as.To.Label # <<>> THEN as.To.Label ELSE Decimal(as.To.Offset)

cbformatString(as) == RegisterString(as.From.Reg) \o <<",">> \o as.To.Label

iwformatString(as) == RegisterString(as.To.Reg) \o <<",", "#">> \o Decimal(as.Imm)

NilFunc == "nil function"

\* Instruction.writeString and String: the text, or the panic of calling the
\* nil printer of imformat
String(as) ==
    LET f    == opcodes[as.Op]
        head == (IF as.Label # <<>> THEN as.Label \o <<":", " ">> ELSE <<>>)
                    \o as.Op \o <<" ">>
    IN  IF as.Op \notin DOMAIN opcodes THEN [s |-> <<>>, panic |-> NoPanic]
        ELSE IF f = "imformat" THEN [s |-> head, panic |-> NilFunc]
        ELSE [s |-> head \o (IF f = "rformat" THEN rformatString(as)
                             ELSE IF f = "iformat" THEN iformatString(as)
                             ELSE IF f = "dformat" THEN dformatString(as)
                             ELSE IF f = "bformat" THEN bformatString(as)
                             ELSE IF f = "cbformat" THEN cbformatString(as)
                             ELSE iwformatString(as)),
              panic |-> NoPanic]

----------------------------------------------------------------------------
(* A caller of the parser: it gives the parser a source text, or the text  *)
(* Instruction.String made of an instruction, and calls Next until Next    *)
(* returns an error. parser keeps the instruction printed (orig, when      *)
(* printed), the items of the text (tokens), the Parser (p), the result of *)
(* every call of Next with the items left after it (results), and a panic. *)

\* ADDI X1, X2 : the immediate and its comma are missing, then the end of the input
MissingImmediate ==
    <<"A", "D", "D", "I", " ", "X", "1", ",", " ", "X", "2">>

\* the same line, followed by another line
MissingImmediateLine ==
    <<"A", "D", "D", "I", " ", "X", "1", ",", " ", "X", "2", "\n", "A", "D", "D", " ",
      "X", "1", ",", " ", "X", "2", ",", " ", "X", "3">>

\* the immediate alone is missing
MissingImmediateComma ==
    <<"A", "D", "D", "I", " ", "X", "1", ",", " ", "X", "2", ",">>

\* the largest immediate of 16 bits
Imm16Max ==
    <<"A", "D", "D", "I", " ", "X", "1", ",", " ", "X", "2", ",", " ", "#", "6", "5",
      "5", "3", "5">>

\* an immediate of 17 bits
Imm16Over ==
    <<"A", "D", "D", "I", " ", "X", "1", ",", " ", "X", "2", ",", " ", "#", "6", "5",
      "5", "3", "6">>

\* an immediate of 33 bits
Imm32Over ==
    <<"A", "D", "D", "I", " ", "X", "1", ",", " ", "X", "2", ",", " ", "#", "4", "2",
      "9", "4", "9", "6", "7", "2", "9", "6">>

\* an offset of 17 bits
Offset17 ==
    <<"L", "D", "U", "R", " ", "X", "1", ",", " ", "[", "X", "2", ",", " ", "#", "6",
      "5", "5", "3", "6", "]">>

\* the largest offset of 31 bits
Offset31Max ==
    <<"L", "D", "U", "R", " ", "X", "1", ",", " ", "[", "X", "2", ",", " ", "#", "2",
      "1", "4", "7", "4", "8", "3", "6", "4", "7", "]">>

\* an offset of 33 bits
Offset32Over ==
    <<"S", "T", "U", "R", " ", "X", "1", ",", " ", "[", "X", "2", ",", " ", "#", "4",
      "2", "9", "4", "9", "6", "7", "2", "9", "6", "]">>

\* branches to a label, alone, labelled, and followed by a line
BranchLine ==
    <<"B", " ", "L">>

CallLine ==
    <<"B", "L", " ", "L">>

CondLine ==
    <<"B", ".", "E", "Q", " ", "L">>

LabelledBranchLine ==
    <<"X", ":", " ", "B", " ", "L">>

BranchThenLine ==
    <<"B", " ", "L", "\n", "A", "D", "D", " ", "X", "1", ",", " ", "X", "2", ",", " ",
      "X", "3">>

CondThenLine ==
    <<"B", ".", "N", "E", " ", "L", "\n", "O", "R", "R", " ", "X", "3", ",", " ", "X",
      "3", ",", " ", "X", "3">>

LabelledCallThenLine ==
    <<"X", ":", " ", "B", "L", " ", "L", "\n", "A", "D", "D", " ", "X", "1", ",", " ",
      "X", "2", ",", " ", "X", "3">>

SourceTexts ==
    {MissingImmediate, MissingImmediateLine, MissingImmediateComma, Imm16Max,
     Imm16Over, Imm32Over, Offset17, Offset31Max, Offset32Over, BranchLine, CallLine,
     CondLine, LabelledBranchLine, BranchThenLine, CondThenLine, LabelledCallThenLine}

\* CBZ / CBNZ Rt, label as the parser stores it
cbformatFields(op, rt, label) == [Op(op) EXCEPT !.From.Reg = rt, !.To.Label = label]

\* instructions of a mnemonic, with the fields its format populates
OpInstructions(op) ==
    LET f == opcodes[op]
    IN  IF f = "rformat" THEN {rformatFields(op, 0, 1, 2), rformatFields(op, 30, 9, 10)}
        ELSE IF f = "iformat" THEN {iformatFields(op, 0, 1, 1), iformatFields(op, 12, 30, 65535)}
        ELSE IF f = "dformat" THEN {dformatFields(op, 0, 1, 0), dformatFields(op, 2, 28, 16)}
        ELSE IF f = "bformat"
        THEN IF op = <<"B", "R">> THEN {bformatReg(op, X1), bformatReg(op, LR)}
             ELSE {bformatLabel(op, L), bformatOffset(op, 2)}
        ELSE IF f = "cbformat" THEN {cbformatFields(op, X1, L)}
        ELSE {iwformatFields(op, X0, 1)}

\* every mnemonic of the table, without and with a label, and XZR as operand
Printed ==
    UNION {OpInstructions(op) \cup {Labelled(<<"X">>, as) : as \in OpInstructions(op)} :
              op \in OpNames}
        \cup {rformatFields(<<"A", "D", "D">>, XZR, XZR, X2)}

\* the items left to the parser: the peeked item, then those of the lexer
Remaining(p) == (IF p.pk # NoItem THEN <<p.pk>> ELSE <<>>) \o p.l

\* p.Use(text)
UseText(text) == Use(Pull(text).items)

InitParse ==
    /\ ZeroCPU
    /\ pc = "parser"
    /\ io = <<>> /\ threads = <<>> /\ lexer = <<>>
    /\ \/ \E text \in SourceTexts : \E items \in {Pull(text).items} :
             parser = [printed |-> FALSE, orig |-> ZeroInstruction, stage |-> "parse",
                       tokens |-> items, p |-> Use(items),
                       results |-> <<>>, panic |-> NoPanic]
       \/ \E as \in Printed :
             parser = [printed |-> TRUE, orig |-> as, stage |-> "print",
                       tokens |-> <<>>, p |-> Use(<<>>), results |-> <<>>,
                       panic |-> NoPanic]

\* p.Use(strings.NewReader(as.String()))
CallString ==
    /\ pc = "parser"
    /\ parser.stage = "print"
    /\ \E r \in {String(parser.orig)} :
           IF r.panic # NoPanic
           THEN parser' = [parser EXCEPT !.stage = "parse", !.panic = r.panic]
           ELSE \E items \in {Pull(r.s).items} :
                    parser' = [parser EXCEPT !.stage = "parse", !.tokens = items,
                                             !.p = Use(items)]
    /\ UNCHANGED cpuVars
    /\ UNCHANGED <<io, threads, lexer>>

\* as, err := p.Next(), until an error
CallNext ==
    /\ pc = "parser"
    /\ parser.stage = "parse"
    /\ parser.panic = NoPanic
    /\ IF parser.results = <<>> THEN TRUE
       ELSE parser.results[Len(parser.results)].err = nil
    /\ \E r \in {ParserNext(parser.p)} :
           parser' = [parser EXCEPT
                         !.p = r.p,
                         !.panic = IF r.p.panicked THEN "nil state" ELSE r.panic,
                         !.results = Append(@, [as |-> r.as, err |-> r.err,
                                                rest |-> Remaining(r.p)])]
    /\ UNCHANGED cpuVars
    /\ UNCHANGED <<io, threads, lexer>>

NextParse == CallString \/ CallNext

SpecParse == InitParse /\ [][NextParse]_vars

----------------------------------------------------------------------------
(* Vocabulary of the properties *)

\* a call of Step has just executed the instruction last.as and returned
Stepped == last.step /\ last.fetched /\ panicked = NoPanic

\* flag f is set in the flags value flags
FlagSet(flags, f) == (flags \div f) % 2 = 1

\* the table of conditions of a conditional branch, on the flags N, Z, V, C
CondHolds(cond, flags) ==
    LET N == FlagSet(flags, flagN)
        Z == FlagSet(flags, flagZ)
        V == FlagSet(flags, flagV)
        C == FlagSet(flags, flagC)
    IN  IF cond = <<"E", "Q">> THEN Z
        ELSE IF cond = <<"N", "E">> THEN ~Z
        ELSE IF cond = <<"L", "T">> THEN N # V
        ELSE IF cond = <<"L", "E">> THEN ~(~Z /\ N = V)
        ELSE IF cond = <<"G", "T">> THEN ~Z /\ N = V
        ELSE IF cond = <<"G", "E">> THEN N = V
        ELSE IF cond = <<"L", "O">> THEN ~C
        ELSE IF cond = <<"L", "S">> THEN ~(~Z /\ C)
        ELSE IF cond = <<"H", "I">> THEN ~Z /\ C
        ELSE IF cond = <<"H", "S">> THEN C
        ELSE IF cond = <<"M", "I">> THEN N
        ELSE IF cond = <<"P", "L">> THEN ~N
        ELSE IF cond = <<"V", "S">> THEN V
        ELSE ~V

\* the condition of the mnemonic B.cond
CondOf(op) == SubSeq(op, 3, Len(op))

\* every label of program p is carried by exactly one instruction
UniqueLabels(p) ==
    \A i, j \in 1 .. Len(p) : p[i].Label # <<>> /\ p[i].Label = p[j].Label => i = j

\* label l is carried by an instruction of p
Defined(p, l) == \E i \in 1 .. Len(p) : p[i].Label = l

\* the index of the instruction of p that carries label l
LabelIndex(p, l) == (CHOOSE i \in 1 .. Len(p) : p[i].Label = l) - 1

\* the executed instruction is a branch to a label that one instruction carries
ToLabel == last.as.To.Label # <<>> /\ UniqueLabels(prog) /\ Defined(prog, last.as.To.Label)

Target == LabelIndex(prog, last.as.To.Label)

\* the set-flags arithmetic and logical mnemonics
AddS == {<<"A", "D", "D", "S">>, <<"A", "D", "D", "I", "S">>}
SubS == {<<"S", "U", "B", "S">>, <<"S", "U", "B", "I", "S">>}
AndS == {<<"A", "N", "D", "S">>, <<"A", "N", "D", "I", "S">>}
SOps == AddS \cup SubS \cup AndS

\* the operands the executed instruction names, and the result it wrote
OperandX == last.Registers[last.as.From.Reg]
OperandY ==
    IF last.as.Op \in {<<"A", "D", "D", "I", "S">>, <<"S", "U", "B", "I", "S">>, <<"A", "N", "D", "I", "S">>}
    THEN last.as.Imm ELSE last.Registers[last.as.Reg]
Result == Registers[last.as.To.Reg]

Negative(v) == v >= HighBit

----------------------------------------------------------------------------
(* Properties *)

\* C1 (XZR invariant): after a Step of ADD or ADDI that names XZR as its first
\* source, the destination holds the second operand alone (XZR read as 0); after
\* a Step of an instruction that names XZR as its destination, register 31 is
\* what it was before the Step.
XZRInvariant ==
    /\ (Stepped /\ last.as.Op \in {<<"A", "D", "D">>, ADDI}
            /\ last.as.From.Reg = XZR /\ last.as.To.Reg # XZR)
        => Registers[last.as.To.Reg] =
               (IF last.as.Op = ADDI THEN last.as.Imm
                ELSE IF last.as.Reg = XZR THEN 0 ELSE last.Registers[last.as.Reg])
    /\ (Stepped /\ last.as.To.Reg = XZR)
        => Registers[XZR] = last.Registers[XZR]

\* C2 (branch semantics): in a program with unique labels, after B label PC is
\* the label's index; after BL label LR is the PC before the Step and PC is the
\* label's index; after a B.cond whose condition is false PC is the previous
\* PC plus 1.
BranchSemantics ==
    /\ (Stepped /\ last.as.Op = <<"B">> /\ ToLabel) => PC = Target
    /\ (Stepped /\ last.as.Op = <<"B", "L">> /\ ToLabel)
        => Registers[LR] = last.PC /\ PC = Target
    /\ (last.step /\ last.fetched /\ HasPrefix(last.as.Op, <<"B", ".">>)
            /\ UniqueLabels(prog) /\ ~CondHolds(CondOf(last.as.Op), last.Flags))
        => panicked = NoPanic /\ PC = last.PC + 1

\* C3 (scenario S2): main on the program of S2 reaches the end of its loop
\* (Step has returned false) with X0 = 42, X1 = 1 and LR = 0.
S2CallAndReturn ==
    (prog = S2Program /\ pc = "loop")
        ~> (pc = "exit" /\ panicked = NoPanic /\ ~ret
                /\ Registers[X0] = 42 /\ Registers[X1] = 1 /\ Registers[LR] = 0)

\* C4 (zero and carry conditions): a Step of B.EQ, B.NE, B.HS, B.LO, B.HI or
\* B.LS takes the branch (PC is the label's index) iff its condition holds of
\* the flags before the Step, and else moves PC on by 1.
ZeroCarryConditions ==
    (Stepped /\ ToLabel
        /\ last.as.Op \in {<<"B", ".", "E", "Q">>, <<"B", ".", "N", "E">>,
                           <<"B", ".", "H", "S">>, <<"B", ".", "L", "O">>,
                           <<"B", ".", "H", "I">>, <<"B", ".", "L", "S">>})
    => PC = (IF CondHolds(CondOf(last.as.Op), last.Flags) THEN Target ELSE last.PC + 1)

\* C5 (signed conditions): a Step of B.LT, B.GE, B.GT or B.LE takes the branch
\* iff its condition holds of the flags before the Step, for each of the 16
\* values of N, Z, V, C, and else moves PC on by 1.
SignedConditions ==
    (Stepped /\ ToLabel
        /\ last.as.Op \in {<<"B", ".", "L", "T">>, <<"B", ".", "G", "E">>,
                           <<"B", ".", "G", "T">>, <<"B", ".", "L", "E">>})
    => PC = (IF CondHolds(CondOf(last.as.Op), last.Flags) THEN Target ELSE last.PC + 1)

\* C6 (compare and branch): after a Step of a parsed CBZ Rt, label (the parser
\* stores Rt in From.Reg and the label in To.Label), PC is the label's index
\* when Rt held 0 and the previous PC plus 1 otherwise; CBNZ is the mirror.
CompareAndBranch ==
    /\ (Stepped /\ last.as.Op = <<"C", "B", "Z">> /\ ToLabel)
        => PC = (IF last.Registers[last.as.From.Reg] = 0 THEN Target ELSE last.PC + 1)
    /\ (Stepped /\ last.as.Op = <<"C", "B", "N", "Z">> /\ ToLabel)
        => PC = (IF last.Registers[last.as.From.Reg] # 0 THEN Target ELSE last.PC + 1)

\* C7 (result-derived flags): after a Step of ADDS, ADDIS, SUBS, SUBIS, ANDS or
\* ANDIS, Z is set iff the result written is 0 and N is set iff the high bit of
\* the result is 1.
ResultFlags ==
    (Stepped /\ last.as.Op \in SOps)
    => /\ FlagSet(Flags, flagZ) <=> Result = 0
       /\ FlagSet(Flags, flagN) <=> Negative(Result)

\* C8 (carry flag): after a Step of ADDS or ADDIS C is set iff the add carried
\* out of the word, after SUBS or SUBIS iff the subtract borrowed, and after
\* ANDS or ANDIS C is clear.
CarryFlag ==
    /\ (Stepped /\ last.as.Op \in AddS)
        => (FlagSet(Flags, flagC) <=> OperandX + OperandY >= Mod)
    /\ (Stepped /\ last.as.Op \in SubS)
        => (FlagSet(Flags, flagC) <=> OperandX < OperandY)
    /\ (Stepped /\ last.as.Op \in AndS) => ~FlagSet(Flags, flagC)

\* C9 (overflow flag): after a Step of ADDS or ADDIS on x and y, V is set iff x
\* and y have the same sign and the result's sign differs; after SUBS or SUBIS,
\* iff x and y have different signs and the result's sign differs from x's.
OverflowFlag ==
    /\ (Stepped /\ last.as.Op \in AddS)
        => (FlagSet(Flags, flagV) <=>
               (Negative(OperandX) = Negative(OperandY)
                   /\ Negative(Result) # Negative(OperandX)))
    /\ (Stepped /\ last.as.Op \in SubS)
        => (FlagSet(Flags, flagV) <=>
               (Negative(OperandX) # Negative(OperandY)
                   /\ Negative(Result) # Negative(OperandX)))

\* C10 (flags frame): a Step that changes Flags has executed ADDS, ADDIS, SUBS,
\* SUBIS, ANDS or ANDIS; a Step of any other instruction of the opcode table
\* leaves Flags as they were.
FlagsFrame ==
    (last.step /\ Flags # last.Flags) => (last.fetched /\ last.as.Op \in SOps)

\* a Step has executed B.HS, a branch whose mnemonic ends in S, with every flag set
FlagsFrameWitness ==
    /\ Stepped
    /\ last.as.Op = <<"B", ".", "H", "S">>
    /\ last.Flags = flagN + flagZ + flagV + flagC
    /\ Flags = last.Flags

\* the I-format mnemonics the CPU executes
IOps ==
    {ADDI, <<"A", "D", "D", "I", "S">>, <<"S", "U", "B", "I">>, <<"S", "U", "B", "I", "S">>,
     <<"A", "N", "D", "I">>, <<"A", "N", "D", "I", "S">>, <<"O", "R", "R", "I">>,
     <<"E", "O", "R", "I">>, <<"L", "S", "L">>, <<"L", "S", "R">>}

\* what an I-format mnemonic makes of the value x of Rn and the immediate imm
IResult(op, x, imm) ==
    IF HasPrefix(op, <<"A", "D", "D">>) THEN (x + imm) % Mod
    ELSE IF HasPrefix(op, <<"S", "U", "B">>) THEN (x - (imm % Mod) + Mod) % Mod
    ELSE IF HasPrefix(op, <<"A", "N", "D">>) THEN BitAnd(x, imm)
    ELSE IF HasPrefix(op, <<"O", "R", "R">>) THEN BitOr(x, imm)
    ELSE IF HasPrefix(op, <<"E", "O", "R">>) THEN BitXor(x, imm)
    ELSE IF op = <<"L", "S", "L">> THEN Shl(x, imm)
    ELSE Shr(x, imm)

\* C11 (immediate operand): after a Step of an I-format instruction OP Rd, Rn,
\* #imm (Rd and Rn not XZR), Rd holds the result of OP on the value Rn had and
\* imm, whatever the other registers hold.
ImmediateOperand ==
    (Stepped /\ last.as.Op \in IOps /\ last.as.To.Reg # XZR /\ last.as.From.Reg # XZR)
    => Registers[last.as.To.Reg] =
           IResult(last.as.Op, last.Registers[last.as.From.Reg], last.as.Imm)

\* C12 (Step's result): a call of Step that returns has returned true iff PC is
\* below the program's length after it, and false for the empty program.
StepResult ==
    (last.step /\ panicked = NoPanic) => (ret <=> PC < Len(prog))

\* a Step has executed the last instruction of a program and returned false
\* with PC at the program's length
StepResultWitness ==
    Stepped /\ ~ret /\ PC = Len(prog) /\ last.PC = Len(prog) - 1

\* C13 (Load resets PC): when Load has just returned, on whatever CPU, PC is 0.
LoadResetsPC == pc = "loaded" => PC = 0

\* C14 (memory self-consistency): a Read of len(B) bytes at A whose last
\* preceding Write is Write(B, A) returns B, and both calls report len(B) bytes.
WriteThenRead ==
    (io.r.valid /\ io.w.valid /\ io.r.addr = io.w.addr /\ Len(io.r.b) = Len(io.w.b))
    => /\ io.r.b = io.w.b
       /\ io.r.n = Len(io.w.b)
       /\ io.w.n = Len(io.w.b)

\* a Write from the last byte of a block over two block boundaries has been
\* read back, the blocks written having been allocated by an earlier call
WriteThenReadWitness ==
    /\ io.calls = 3
    /\ io.r.valid /\ io.w.valid
    /\ io.w.addr = BlockSize - 1 /\ io.r.addr = io.w.addr
    /\ Len(io.w.b) = BlockSize + 2 /\ io.r.b = io.w.b
    /\ DOMAIN Memory.blocks = {0, 1, 2}

\* C15 (monotonic allocation): under every interleaving of the threads' calls,
\* the block first put in the map for an index is the block the map has for
\* it ever after, at most one block is made per index, two threads that hold
\* a block of the same index hold the same block, and every byte a Write has
\* copied is a byte of the block the map has.
MonotonicAllocation ==
    /\ \A k \in DOMAIN threads.first :
           k \in DOMAIN threads.blocks /\ threads.blocks[k] = threads.first[k]
    /\ \A k \in DOMAIN threads.made : threads.made[k] <= 1
    /\ \A i, j \in Threads :
           (threads.t[i].pc \in {"unlock", "copy"} /\ threads.t[j].pc \in {"unlock", "copy"}
                /\ threads.t[i].k = threads.t[j].k)
           => threads.t[i].bk = threads.t[j].bk
    /\ \A l \in DOMAIN threads.wrote :
           /\ l[1] \in DOMAIN threads.blocks
           /\ BlockByte(threads.heap[threads.blocks[l[1]]], l[2]) \in threads.wrote[l]

\* two threads are in calls on the same unallocated index: one holds the mutex
\* and is about to make the block, the other waits for the mutex; a Write has
\* copied bytes before
MonotonicAllocationWitness ==
    \E i, j \in Threads :
        /\ i # j
        /\ threads.t[i].pc = "make" /\ threads.mu = i
        /\ threads.t[j].pc = "lock"
        /\ (threads.t[j].addr + threads.t[j].n) \div BlockSize = threads.t[i].k
        /\ threads.wrote # <<>>

\* an EOF or Error item has been returned
Ended(out) == \E i \in 1 .. Len(out) : out[i].typ \in {itemEOF, itemError}

\* C16 (lexer pull termination): the lexer never stops in a send on its full
\* channel; a call of nextItem made before an EOF or Error item was returned
\* returns an item; and no item follows an EOF or an Error item.
LexerPullTermination ==
    /\ ~lexer.l.blocked
    /\ lexer.status # "returned" => Ended(lexer.out)
    /\ \A i \in 1 .. (Len(lexer.out) - 1) : lexer.out[i].typ \notin {itemEOF, itemError}

\* the items of a text given to the parser
ItemsOf(text) == Pull(text).items

\* the parser was given the source text and Next has returned at least once
ParsedText(text) ==
    /\ pc = "parser"
    /\ ~parser.printed
    /\ parser.tokens = ItemsOf(text)
    /\ parser.results # <<>>

\* C17: for the line ADDI X1, X2, followed by the end of the input or by the
\* next line, Next returns an error that names the immediate and is not the
\* end-of-stream sentinel
MissingOperandError ==
    \A text \in {MissingImmediate, MissingImmediateLine} :
        ParsedText(text) =>
            /\ parser.results[1].err # nil
            /\ parser.results[1].err # EOF
            /\ \E i \in 1 .. Len(parser.results[1].err) :
                   parser.results[1].err[i] = "immediate: "

\* C18: an I-format immediate above 65535 and a D-format offset above
\* 2^32 - 1 are rejected with an error, and the values within the limit are
\* accepted
ImmediateWidthLimits ==
    /\ ParsedText(Imm16Max) =>
           parser.results[1].err = nil /\ parser.results[1].as.Imm = 65535
    /\ ParsedText(Imm16Over) => parser.results[1].err # nil
    /\ ParsedText(Imm32Over) => parser.results[1].err # nil
    /\ ParsedText(Offset17) =>
           parser.results[1].err = nil /\ parser.results[1].as.From.Offset = 65536
    /\ ParsedText(Offset31Max) =>
           parser.results[1].err = nil /\ parser.results[1].as.From.Offset = 2147483647
    /\ ParsedText(Offset32Over) => parser.results[1].err # nil

\* C19: parsing the text that String prints for an instruction of the opcode
\* table, with or without a label, yields the instruction
RoundTrip ==
    (/\ pc = "parser"
     /\ parser.printed
     /\ parser.stage = "parse"
     /\ parser.panic # NoPanic \/ parser.results # <<>>)
        => /\ parser.panic = NoPanic
           /\ parser.results[1].err = nil
           /\ parser.results[1].as = parser.orig

\* the lines OP label, with and without a label and a following line
BranchTexts ==
    {BranchLine, CallLine, CondLine, LabelledBranchLine, BranchThenLine, CondThenLine,
     LabelledCallThenLine}

\* C20: for a line OP label with OP one of B, BL and B.cond, Next returns the
\* instruction whose To.Label is the name after the mnemonic, and leaves to the
\* next call the items right after that name
BranchLookahead ==
    \A text \in BranchTexts :
        ParsedText(text) =>
            LET t == parser.tokens
                k == IF t[2].typ = itemColon THEN 3 ELSE 1
                r == parser.results[1]
            IN  /\ r.err = nil
                /\ r.as.To.Label = t[k + 1].text
                /\ r.rest = SubSeq(t, k + 2, Len(t))

\* the mnemonics of the opcode table that have a parser and are no branch: the
\* R-, I- and D-format ones
NonBranchOps == {op \in OpNames : opcodes[op] \in {"rformat", "iformat", "dformat"}}

\* every instruction of program p is of a mnemonic of NonBranchOps
NonBranchProgram(p) == \A i \in 1 .. Len(p) : p[i].Op \in NonBranchOps

\* C21 (progress of non-branch instructions): a Step that has executed an
\* instruction of a non-branch mnemonic of the opcode table has advanced PC by
\* exactly 1; in a program of such instructions it has returned true iff an
\* instruction is left, so that no such Step returns true on an unchanged CPU.
NonBranchProgress ==
    (Stepped /\ last.as.Op \in NonBranchOps)
    => /\ PC = (last.PC + 1) % Mod
       /\ NonBranchProgram(prog) => (ret <=> last.PC + 1 < Len(prog))
       /\ ret => <<PC, Registers, Flags>> # <<last.PC, last.Registers, last.Flags>>

\* the Step that has just returned executed a branch to a label that no
\* instruction of the program carries, and took it: B, BL, or a B.cond for
\* which shouldBranch answered true on the flags before the Step
TookUndefined ==
    /\ Stepped
    /\ last.as.To.Label # <<>>
    /\ ~Defined(prog, last.as.To.Label)
    /\ \/ last.as.Op \in {<<"B">>, <<"B", "L">>}
       \/ /\ HasPrefix(last.as.Op, <<"B", ".">>)
          /\ shouldBranch([Flags |-> last.Flags], CondOf(last.as.Op)).ok

\* C22 (undefined label): Load succeeds for every program and records no error;
\* after a Step that took a branch to a label no instruction carries, PC is 0
\* and the CPU's Err is nil.
UndefinedLabel ==
    /\ Err = nil
    /\ (~Memory.nil /\ ~last.step) => panicked = NoPanic
    /\ TookUndefined => PC = 0

\* a Step at index 1 has taken a conditional branch to an undefined label
UndefinedLabelWitness ==
    /\ TookUndefined
    /\ HasPrefix(last.as.Op, <<"B", ".">>)
    /\ last.PC = 1
    /\ PC = 0

====
